---- MODULE Spec2Model ----
(***************************************************************************)
(* Model of the quai-multisig-indexer event-ingestion pipeline.            *)
(*                                                                         *)
(* Spec          the indexer service (src/src/indexer.ts): start, the      *)
(*               backfill loop, the poll loop, stop, against a growing     *)
(*               chain and the checkpoint row of the store.                *)
(* SpecShutdown  the same with the signal handlers of src/src/index.ts and   *)
(*               an iteration of the poll loop in two steps.               *)
(* SpecBackfill  the standalone backfill entrypoint (src/src/backfill.ts),  *)
(*               run any number of times against the chain and the store.  *)
(* SpecOwners, SpecTransactions, SpecRecovery, SpecRecoverySetup,           *)
(* SpecDailyLimit                                                          *)
(*               the event handlers (events/index.ts) and the store calls  *)
(*               they make (services/supabase.ts, schema triggers and      *)
(*               keys), fed the events of one wallet at least once each.   *)
(* SpecUndecodable  one run of the indexer on a chain that also holds logs   *)
(*               decodeEvent does not decode.                              *)
(* SpecListing   getAllWalletAddresses (services/supabase.ts), page by     *)
(*               page, on any wallets table.                               *)
(* SpecModules, SpecRecoveryInitiated                                      *)
(*               the handlers of the module events of a wallet and of the  *)
(*               recovery module's setups and initiations.                 *)
(* SpecJsonRpc   one call of the RPC client (services/quai.ts) and the      *)
(*               responses its attempts get.                               *)
(* SpecLive      the indexer without injected failures, under weak         *)
(*               fairness of its steps, on a chain where the module        *)
(*               contracts also serve wallets the factory never saw.       *)
(* SpecStartBlock  the indexer started with a configured start block.      *)
(* SpecStartupStop  one process with a signal during its startup backfill. *)
(***************************************************************************)
EXTENDS Integers, Sequences, FiniteSets, TLC

\* ------------------------------------------------------------------ bounds
MaxTip == 5          \* the chain grows to this height
MaxLogs == 3         \* logs the chain emits in all
BatchSize == 2       \* config.indexer.batchSize, scaled down from 1000
MaxRuns == 2         \* runs of the standalone backfill script
MaxEvents == 4       \* events the contracts of the wallet emit
MaxBlock == 2        \* blocks those events lie in
MaxRetries == 1      \* failed handler runs and re-delivered ranges
MaxLimit == 2        \* largest daily limit and remaining limit
MaxLimitEvents == 3  \* events the daily-limit module emits
MaxTime == 4         \* clock ticks (Date.now())
MaxSent == 3         \* requests the RPC client sends
WindowMs == 2        \* config.rateLimit.windowMs, in ticks, scaled down from 1000
RequestsPerWindow == 1  \* config.rateLimit.requestsPerWindow, scaled down from 50
DelayMs == 2         \* withRetry's delayMs, in ticks, scaled down from 1000
MaxAttemptsOption == 4  \* largest maxAttempts option passed to withRetry
MaxDelayOption == 3  \* largest delayMs and maxDelayMs options, in ticks
TimestampCacheSize == 2  \* config.cache.timestampCacheSize, scaled down from 1000
MaxCacheBlock == 3   \* blocks whose timestamp is asked for
MaxRequests == 4     \* quai_getBlockByNumber requests sent
MaxBlocksBehind == 1 \* config.health.maxBlocksBehind, scaled down from 100
WordChars == 2       \* hex characters of an ABI word, scaled down from 64
AddressChars == 1    \* hex characters of an address, scaled down from 40
ArrayLimit == 2      \* largest array length decodeAddressArray accepts, scaled down from 1000
MaxInput == 8        \* characters of an arbitrary input of decodeAddressArray
GET_LOGS_ADDRESS_CHUNK_SIZE == 1  \* addresses of one wallet-log request, scaled down from 100
PAGE_SIZE == 2       \* rows of one page of getAllWalletAddresses, scaled down from 1000
MaxRows == 5         \* rows of the wallets table when it is listed
MaxPeriod == 1       \* largest recoveryPeriod of a RecoverySetup event, in seconds
MaxRecoveryEvents == 3  \* setups and initiations the recovery module emits

\* ------------------------------------------------------- program constants
Confirmations == 2   \* config.indexer.confirmations (default)
StartBlock == 0      \* config.indexer.startBlock (default)
MaxAttempts == 3     \* withRetry's maxAttempts (default)
BackoffMultiplier == 2  \* withRetry's backoffMultiplier (default)
ConfiguredStartBlock == 2  \* config.indexer.startBlock with START_BLOCK set

Wallets == {"w1", "w2"}
Factory == "factory"         \* config.contracts.proxyFactory
ModuleAddr == "module"       \* a configured module contract
StoreWallet == "w1"          \* the wallet whose events the store specifications follow
Owners == {"o1", "o2"}
Guardians == {"g1", "g2"}
TxHashes == {"t1"}
RecoveryHashes == {"r1"}
Values == {"a", "b"}         \* what fn of withRetry returns
Errors == {"e1", "e2"}       \* what fn of withRetry throws
Callers == {"c1", "c2"}      \* calls of the RPC client that can be in flight together
Modules == {"m1", "m2"}      \* module contracts a wallet enables and disables

VARIABLES
  chain,             \* logs emitted so far
  tip,               \* chain height (quai_blockNumber)
  lastIndexedBlock,  \* indexer_state.last_indexed_block
  isSyncing,         \* indexer_state.is_syncing
  storeWallets,      \* wallets.address rows
  trackedWallets,    \* Indexer.trackedWallets
  isRunning,         \* Indexer.isRunning
  pc,                \* where the indexer process is
  bf,                \* the running Indexer.backfill call: its loop variable and bounds
  dispatched,        \* logs handed to handleEvent by the latest range, in order
  lastRange,         \* the latest range attempt and how it ended
  script,            \* the standalone backfill process
  events,            \* decoded events the contracts of one wallet have emitted, in chain order
  cursor,            \* how many of them the current pass has handed to handleEvent
  retries,           \* failed handler runs and re-delivered ranges so far
  db,                \* the tables the event handlers write
  quai,              \* QuaiService: its rate limiter, the clock, the requests sent
  retry,             \* one run of withRetry
  stamp,             \* QuaiService: its block-timestamp cache and the calls that read it
  probe,             \* the latest answer of the health service
  decode,            \* the latest call of decodeAddressArray
  listing,           \* the latest call of getAllWalletAddresses
  rpc,               \* one call of the RPC client: its attempts, the responses to them
  signal             \* the SIGINT/SIGTERM handler of index.ts: whether it has called stop()

indexerVars == <<chain, tip, lastIndexedBlock, isSyncing, storeWallets,
                 trackedWallets, isRunning, pc, bf, dispatched, lastRange, script>>
storeVars == <<events, cursor, retries, db>>
serviceVars == <<quai, retry, stamp, probe, decode, listing, rpc, signal>>
vars == <<indexerVars, storeVars, serviceVars>>

Min(a, b) == IF a < b THEN a ELSE b
Max(a, b) == IF a > b THEN a ELSE b

NoBackfill == [from |-> 0, to |-> 0, start |-> 0, caller |-> "none"]
NoRange == [from |-> 0, to |-> 0, ok |-> TRUE, by |-> "none"]
ScriptIdle == [pc |-> "idle", from |-> 0, to |-> 0, start |-> 0, tracked |-> {}, runs |-> 0]

\* ------------------------------------------------------------------ chain
\* A log as quai.getLogs returns it, with the decoded event name and args.wallet.
MkLog(name, address, wallet, b, i) ==
  [name |-> name, address |-> address, wallet |-> wallet, blockNumber |-> b, index |-> i]

\* The log index of an event inside its block: w1's wallet event precedes w2's creation.
LogIndexOf(name, w) ==
  CASE name = "WalletCreated" /\ w = "w1" -> 0
    [] name = "Received"      /\ w = "w1" -> 1
    [] name = "WalletCreated" /\ w = "w2" -> 2
    [] name = "Received"      /\ w = "w2" -> 3
    [] OTHER -> 4

CreatedOnChain == {l.wallet : l \in {x \in chain : x.name = "WalletCreated"}}

\* What block b may contain: creations of wallets not yet created, and events of
\* wallets created before b or in b.
BlockContents(b) ==
  {S \in SUBSET ({MkLog("WalletCreated", Factory, w, b, LogIndexOf("WalletCreated", w)) : w \in Wallets \ CreatedOnChain}
                 \cup {MkLog("Received", w, w, b, LogIndexOf("Received", w)) : w \in Wallets}
                 \cup {MkLog("DailyLimitSet", ModuleAddr, "w1", b, LogIndexOf("DailyLimitSet", "w1"))}) :
     /\ Cardinality(S) + Cardinality(chain) <= MaxLogs
     /\ \A l \in S : l.name # "WalletCreated" =>
          \/ l.wallet \in CreatedOnChain
          \/ \E c \in S : c.name = "WalletCreated" /\ c.wallet = l.wallet}

MineBlock ==
  /\ UNCHANGED <<storeVars, serviceVars>>
  /\ tip < MaxTip
  /\ tip' = tip + 1
  /\ \E S \in BlockContents(tip + 1) :
       /\ (tip + 1 > MaxTip - Confirmations => S = {})
       /\ chain' = chain \cup S
  /\ UNCHANGED <<lastIndexedBlock, isSyncing, storeWallets, trackedWallets,
                 isRunning, pc, bf, dispatched, lastRange, script>>

\* What block b may also contain where logs that do not decode are followed: the
\* creation of w1 and a log of w1, a log of w1 whose data do not decode, a module
\* log whose topic0 is none of EVENT_SIGNATURES.
BlockContentsUndecodable(b) ==
  {S \in SUBSET ({MkLog("WalletCreated", Factory, "w1", b, 0) : w \in {"w1"} \ CreatedOnChain}
                 \cup {MkLog("Received", "w1", "w1", b, 1),
                       MkLog("MalformedData", "w1", "w1", b, 2),
                       MkLog("UnknownTopic", ModuleAddr, "none", b, 3)}) :
     /\ Cardinality(S) + Cardinality(chain) <= MaxLogs
     /\ \A l \in S : l.address = "w1" =>
          \/ "w1" \in CreatedOnChain
          \/ \E c \in S : c.name = "WalletCreated"}

MineBlockUndecodable ==
  /\ UNCHANGED <<storeVars, serviceVars>>
  /\ tip < MaxTip
  /\ tip' = tip + 1
  /\ \E S \in BlockContentsUndecodable(tip + 1) :
       /\ (tip + 1 > MaxTip - Confirmations => S = {})
       /\ chain' = chain \cup S
  /\ UNCHANGED <<lastIndexedBlock, isSyncing, storeWallets, trackedWallets,
                 isRunning, pc, bf, dispatched, lastRange, script>>

\* quai.getLogs(address | [address], topics, fromBlock, toBlock)
getLogs(addresses, fromBlock, toBlock) ==
  {l \in chain : l.address \in addresses /\ fromBlock <= l.blockNumber /\ l.blockNumber <= toBlock}


\* ------------------------------------------------- range scan (indexer.ts)
Entry(l, p) == [log |-> l, priority |-> p]

\* The comparator of allLogs.sort: a sorts before b.
BeforeIndexFirst(a, b) ==
  IF a.log.blockNumber # b.log.blockNumber THEN a.log.blockNumber < b.log.blockNumber
  ELSE IF a.log.index # b.log.index THEN a.log.index < b.log.index
  ELSE a.priority < b.priority

Before(a, b) ==
  IF a.log.blockNumber # b.log.blockNumber THEN a.log.blockNumber < b.log.blockNumber
  ELSE IF a.priority # b.priority THEN a.priority < b.priority
  ELSE a.log.index < b.log.index

RECURSIVE SortLogs(_)
SortLogs(S) ==
  IF S = {} THEN <<>>
  ELSE LET m == CHOOSE x \in S : \A y \in S \ {x} : Before(x, y)
       IN <<m>> \o SortLogs(S \ {m})

\* Array.from(set): the elements of the set in a sequence. The Set iterates in
\* insertion order; the scan merges and sorts what the requests return, so the
\* sequence is taken in one fixed order.
RECURSIVE ArrayFrom(_)
ArrayFrom(S) ==
  IF S = {} THEN <<>>
  ELSE LET x == CHOOSE y \in S : TRUE IN <<x>> \o ArrayFrom(S \ {x})

\* The loop `for (i = 0; i < walletAddresses.length; i += GET_LOGS_ADDRESS_CHUNK_SIZE)`
\* from index i (0-based) on: the address list of each getLogs request,
\* walletAddresses.slice(i, i + GET_LOGS_ADDRESS_CHUNK_SIZE).
RECURSIVE Chunks(_, _)
Chunks(walletAddresses, i) ==
  IF i >= Len(walletAddresses) THEN <<>>
  ELSE <<SubSeq(walletAddresses, i + 1,
                Min(i + GET_LOGS_ADDRESS_CHUNK_SIZE, Len(walletAddresses)))>>
         \o Chunks(walletAddresses, i + GET_LOGS_ADDRESS_CHUNK_SIZE)

\* The address lists of the wallet-log requests of indexBlockRange, in the order
\* they are sent: none for an empty tracked set.
WalletLogRequests(tracked) ==
  IF tracked # {} THEN Chunks(ArrayFrom(tracked), 0) ELSE <<>>

\* The address lists of the wallet-log requests of a batch of the standalone
\* backfill: one request with Array.from(trackedWallets), whatever its length.
ScriptWalletLogRequests(tracked) ==
  IF tracked # {} THEN <<ArrayFrom(tracked)>> ELSE <<>>

\* The addresses of a request.
AddressesOf(chunk) == {chunk[k] : k \in 1 .. Len(chunk)}

\* What the requests return, merged.
WalletLogs(requests, fromBlock, toBlock) ==
  UNION {getLogs(AddressesOf(requests[k]), fromBlock, toBlock) : k \in 1 .. Len(requests)}

\* Steps 1-3 of indexBlockRange: factory logs, the logs of the wallet-log requests,
\* module logs, each tagged with its priority.
CollectLogs(tracked, fromBlock, toBlock) ==
  {Entry(l, 0) : l \in getLogs({Factory}, fromBlock, toBlock)}
    \cup {Entry(l, 1) : l \in WalletLogs(WalletLogRequests(tracked), fromBlock, toBlock)}
    \cup {Entry(l, 2) : l \in getLogs({ModuleAddr}, fromBlock, toBlock)}

IsFactoryEvent(l) == l.name \in {"WalletCreated", "WalletRegistered"}

\* What decodeEvent answers for a log it does not decode.
Null == [name |-> "null"]

\* decodeEvent(log): null when topic0 is none of EVENT_SIGNATURES, when the event
\* has no ABI, and when parseLog returns null or throws on the topics or the data;
\* otherwise the event with its name and arguments. A log of the chain carries in
\* its name what its topic0 and data decode to.
decodeEvent(l) ==
  IF l.name \in {"UnknownTopic", "MalformedData"} THEN Null ELSE l

\* A handler's rows reference wallets(address): without the wallet row the store
\* rejects the write and handleEvent rethrows.
HandlerCanSucceed(l, wallets) == IsFactoryEvent(l) \/ l.wallet \in wallets

ScanState(tracked) ==
  [ok |-> TRUE, tracked |-> tracked, wallets |-> storeWallets, dispatched |-> <<>>]

\* A wallet that uses the module contracts and has no row in wallets: it was not
\* deployed by the factory and never registered with it.
ForeignWallet == "w9"

\* What block b may contain where the module contracts serve any wallet: the
\* creation of w1 and a log of w1, a DailyLimitSet of the module for w1, and a
\* DailyLimitSet of the module for the foreign wallet.
BlockContentsForeign(b) ==
  {S \in SUBSET ({MkLog("WalletCreated", Factory, "w1", b, 0) : w \in {"w1"} \ CreatedOnChain}
                 \cup {MkLog("Received", "w1", "w1", b, 1),
                       MkLog("DailyLimitSet", ModuleAddr, "w1", b, 2),
                       MkLog("DailyLimitSet", ModuleAddr, ForeignWallet, b, 3)}) :
     /\ Cardinality(S) + Cardinality(chain) <= MaxLogs
     /\ \A l \in S : l.wallet = "w1" /\ l.name # "WalletCreated" =>
          \/ "w1" \in CreatedOnChain
          \/ \E c \in S : c.name = "WalletCreated"}

MineBlockForeign ==
  /\ UNCHANGED <<storeVars, serviceVars>>
  /\ tip < MaxTip
  /\ tip' = tip + 1
  /\ \E S \in BlockContentsForeign(tip + 1) :
       /\ (tip + 1 > MaxTip - Confirmations => S = {})
       /\ chain' = chain \cup S
  /\ UNCHANGED <<lastIndexedBlock, isSyncing, storeWallets, trackedWallets,
                 isRunning, pc, bf, dispatched, lastRange, script>>

\* The dispatch loop of indexBlockRange from entry i on; the handler of entry
\* failAt throws (0: none does).
RECURSIVE ProcessLogs(_, _, _, _)
\* The dispatch loop with a decoder that throws where decodeEvent returns null.
ProcessLogsThrowingDecoder(entries, i, failAt, st) ==
  IF i > Len(entries) THEN st
  ELSE IF decodeEvent(entries[i].log) = Null THEN [st EXCEPT !.ok = FALSE]
  ELSE LET l == decodeEvent(entries[i].log)
           st1 == [st EXCEPT !.tracked = IF IsFactoryEvent(l) THEN @ \cup {l.wallet} ELSE @,
                             !.dispatched = Append(@, l)]
       IN IF i = failAt \/ ~HandlerCanSucceed(l, st.wallets)
          THEN [st1 EXCEPT !.ok = FALSE]
          ELSE ProcessLogs(entries, i + 1, failAt,
                 [st1 EXCEPT !.wallets = IF IsFactoryEvent(l) THEN @ \cup {l.wallet} ELSE @])

ProcessLogs(entries, i, failAt, st) ==
  IF i > Len(entries) THEN st
  ELSE IF decodeEvent(entries[i].log) = Null THEN ProcessLogs(entries, i + 1, failAt, st)
  ELSE LET l == decodeEvent(entries[i].log)
           st1 == [st EXCEPT !.tracked = IF IsFactoryEvent(l) THEN @ \cup {l.wallet} ELSE @,
                             !.dispatched = Append(@, l)]
       IN IF i = failAt \/ ~HandlerCanSucceed(l, st.wallets)
          THEN [st1 EXCEPT !.ok = FALSE]
          ELSE ProcessLogs(entries, i + 1, failAt,
                 [st1 EXCEPT !.wallets = IF IsFactoryEvent(l) THEN @ \cup {l.wallet} ELSE @])

\* indexBlockRange(fromBlock, toBlock); f = -1: a getLogs call fails after its
\* retries, f = 0: no injected failure, f = k > 0: the handler of the k-th log throws.
indexBlockRange(fromBlock, toBlock, f) ==
  IF f = -1 THEN [ScanState(trackedWallets) EXCEPT !.ok = FALSE]
  ELSE ProcessLogs(SortLogs(CollectLogs(trackedWallets, fromBlock, toBlock)), 1, f,
                   ScanState(trackedWallets))

\* IndexAndCommit with the checkpoint written whether or not the range succeeded.
IndexAndCommitAlways(fromBlock, toBlock, f, by) ==
  \E st \in {indexBlockRange(fromBlock, toBlock, f)} :
    /\ trackedWallets' = st.tracked
    /\ storeWallets' = st.wallets
    /\ dispatched' = st.dispatched
    /\ lastIndexedBlock' = toBlock
    /\ lastRange' = [from |-> fromBlock, to |-> toBlock, ok |-> st.ok /\ f # -2, by |-> by]

\* indexBlockRange followed by supabase.updateIndexerState(toBlock), as both callers
\* run them; f = -2: the checkpoint write itself fails.
IndexAndCommit(fromBlock, toBlock, f, by) ==
  \E st \in {indexBlockRange(fromBlock, toBlock, f)} :
    LET ok == st.ok /\ f # -2
    IN /\ trackedWallets' = st.tracked
       /\ storeWallets' = st.wallets
       /\ dispatched' = st.dispatched
       /\ lastIndexedBlock' = IF ok THEN toBlock ELSE lastIndexedBlock
       /\ lastRange' = [from |-> fromBlock, to |-> toBlock, ok |-> ok, by |-> by]

Failures == (0 - 2) .. MaxLogs

\* ------------------------------------------------------ store (supabase.ts)
\* The tables as sets of rows; module_transactions, which has no unique key, as
\* the sequence of its rows. Only the columns the handlers' outcomes depend on.
EmptyDb ==
  [wallets |-> {}, wallet_owners |-> {}, transactions |-> {}, confirmations |-> {},
   social_recovery_configs |-> {}, social_recovery_guardians |-> {},
   social_recoveries |-> {}, social_recovery_approvals |-> {},
   daily_limit_state |-> {}, module_transactions |-> <<>>, wallet_modules |-> {}]

\* How a store call or a handler ends: it returns (ok) or throws, leaving tables db.
Ok(d) == [ok |-> TRUE, db |-> d]
Threw(d) == [ok |-> FALSE, db |-> d]

\* REFERENCES wallets(address): the parent row a child row needs.
HasWallet(d, w) == \E r \in d.wallets : r.address = w

upsertWallet(d, address, threshold, ownerCount) ==
  Ok([d EXCEPT !.wallets = {r \in @ : r.address # address}
        \cup {[address |-> address, threshold |-> threshold, owner_count |-> ownerCount]}])

\* rpc increment_owner_count: owner_count = owner_count + delta_value.
updateWalletOwnerCount(d, address, delta) ==
  Ok([d EXCEPT !.wallets =
        {IF r.address = address THEN [r EXCEPT !.owner_count = @ + delta] ELSE r : r \in @}])

OwnerRow(w, o, b) ==
  [wallet_address |-> w, owner_address |-> o, added_at_block |-> b, is_active |-> TRUE]

\* UNIQUE(wallet_address, owner_address, added_at_block)
OwnerKeyTaken(d, w, o, b) ==
  \E r \in d.wallet_owners :
    r.wallet_address = w /\ r.owner_address = o /\ r.added_at_block = b

\* insert; a foreign-key error is thrown, a unique violation (23505) is ignored.
addOwner(d, w, o, b) ==
  IF ~HasWallet(d, w) THEN Threw(d)
  ELSE IF OwnerKeyTaken(d, w, o, b) THEN Ok(d)
  ELSE Ok([d EXCEPT !.wallet_owners = @ \cup {OwnerRow(w, o, b)}])

\* One insert statement for all rows: any unique violation rejects them all.
addOwnersBatch(d, w, owners, b) ==
  IF owners = {} THEN Ok(d)
  ELSE IF ~HasWallet(d, w) THEN Threw(d)
  ELSE IF \E o \in owners : OwnerKeyTaken(d, w, o, b) THEN Ok(d)
  ELSE Ok([d EXCEPT !.wallet_owners = @ \cup {OwnerRow(w, o, b) : o \in owners}])

\* update ... where wallet_address, owner_address match and is_active.
removeOwner(d, w, o) ==
  Ok([d EXCEPT !.wallet_owners =
        {IF r.wallet_address = w /\ r.owner_address = o /\ r.is_active
           THEN [r EXCEPT !.is_active = FALSE] ELSE r : r \in @}])

\* upsert on (wallet_address, tx_hash): status and confirmation_count are written
\* from the argument on insert and on conflict alike.
upsertTransaction(d, w, h, status, confirmationCount) ==
  IF ~HasWallet(d, w) THEN Threw(d)
  ELSE Ok([d EXCEPT !.transactions =
             {r \in @ : ~(r.wallet_address = w /\ r.tx_hash = h)}
               \cup {[wallet_address |-> w, tx_hash |-> h, status |-> status,
                      confirmation_count |-> confirmationCount]}])

updateTransactionStatus(d, w, h, status) ==
  Ok([d EXCEPT !.transactions =
        {IF r.wallet_address = w /\ r.tx_hash = h THEN [r EXCEPT !.status = status] ELSE r
           : r \in @}])

ActiveConfirmations(d, w, h) ==
  {c \in d.confirmations : c.wallet_address = w /\ c.tx_hash = h /\ c.is_active}

\* trigger_update_confirmation_count, AFTER INSERT OR UPDATE ON confirmations.
update_confirmation_count(d, w, h) ==
  [d EXCEPT !.transactions =
     {IF r.wallet_address = w /\ r.tx_hash = h
        THEN [r EXCEPT !.confirmation_count = Cardinality(ActiveConfirmations(d, w, h))]
        ELSE r : r \in @}]

\* insert; the row references transactions(wallet_address, tx_hash); a unique
\* violation on (wallet, tx_hash, owner, confirmed_at_block) is ignored, and the
\* rejected insert fires no trigger.
addConfirmation(d, w, h, o, b) ==
  IF ~\E t \in d.transactions : t.wallet_address = w /\ t.tx_hash = h THEN Threw(d)
  ELSE IF \E c \in d.confirmations :
            c.wallet_address = w /\ c.tx_hash = h /\ c.owner_address = o
              /\ c.confirmed_at_block = b
       THEN Ok(d)
  ELSE Ok(update_confirmation_count(
            [d EXCEPT !.confirmations = @ \cup
               {[wallet_address |-> w, tx_hash |-> h, owner_address |-> o,
                 confirmed_at_block |-> b, is_active |-> TRUE]}], w, h))

\* update of the active rows of (wallet, tx_hash, owner); the trigger runs for each
\* row updated.
revokeConfirmation(d, w, h, o) ==
  LET hit == {c \in ActiveConfirmations(d, w, h) : c.owner_address = o}
      d1 == [d EXCEPT !.confirmations =
               {IF c \in hit THEN [c EXCEPT !.is_active = FALSE] ELSE c : c \in @}]
  IN Ok(IF hit = {} THEN d ELSE update_confirmation_count(d1, w, h))

\* upsert on (wallet_address, recovery_hash), approval_count and status included.
upsertRecovery(d, w, h, status, approvalCount, executionTime) ==
  IF ~HasWallet(d, w) THEN Threw(d)
  ELSE Ok([d EXCEPT !.social_recoveries =
             {r \in @ : ~(r.wallet_address = w /\ r.recovery_hash = h)}
               \cup {[wallet_address |-> w, recovery_hash |-> h, status |-> status,
                      approval_count |-> approvalCount,
                      execution_time |-> executionTime]}])

updateRecoveryStatus(d, w, h, status) ==
  Ok([d EXCEPT !.social_recoveries =
        {IF r.wallet_address = w /\ r.recovery_hash = h THEN [r EXCEPT !.status = status]
           ELSE r : r \in @}])

ActiveApprovals(d, w, h) ==
  {a \in d.social_recovery_approvals :
     a.wallet_address = w /\ a.recovery_hash = h /\ a.is_active}

\* trigger_update_recovery_approval_count, AFTER INSERT OR UPDATE ON
\* social_recovery_approvals.
update_recovery_approval_count(d, w, h) ==
  [d EXCEPT !.social_recoveries =
     {IF r.wallet_address = w /\ r.recovery_hash = h
        THEN [r EXCEPT !.approval_count = Cardinality(ActiveApprovals(d, w, h))]
        ELSE r : r \in @}]

addRecoveryApproval(d, w, h, g, b) ==
  IF ~\E r \in d.social_recoveries : r.wallet_address = w /\ r.recovery_hash = h
  THEN Threw(d)
  ELSE IF \E a \in d.social_recovery_approvals :
            a.wallet_address = w /\ a.recovery_hash = h /\ a.guardian_address = g
              /\ a.approved_at_block = b
       THEN Ok(d)
  ELSE Ok(update_recovery_approval_count(
            [d EXCEPT !.social_recovery_approvals = @ \cup
               {[wallet_address |-> w, recovery_hash |-> h, guardian_address |-> g,
                 approved_at_block |-> b, is_active |-> TRUE]}], w, h))

revokeRecoveryApproval(d, w, h, g) ==
  LET hit == {a \in ActiveApprovals(d, w, h) : a.guardian_address = g}
      d1 == [d EXCEPT !.social_recovery_approvals =
               {IF a \in hit THEN [a EXCEPT !.is_active = FALSE] ELSE a : a \in @}]
  IN Ok(IF hit = {} THEN d ELSE update_recovery_approval_count(d1, w, h))

\* Three statements: the upsert of the config row on wallet_address, whose error
\* is thrown; the update that inactivates every guardian row of the wallet, whose
\* error is not looked at; one insert of the new guardian rows, rejected whole by a
\* violation of UNIQUE(wallet_address, guardian_address, added_at_block), which is
\* ignored, any other error being thrown. f names the statement that fails.
upsertRecoveryConfig(d, w, guardians, threshold, recoveryPeriod, b, f) ==
  LET d1 == [d EXCEPT !.social_recovery_configs =
               {r \in @ : r.wallet_address # w}
                 \cup {[wallet_address |-> w, threshold |-> threshold,
                        recovery_period |-> recoveryPeriod, setup_at_block |-> b]}]
      d2 == IF f = 2 THEN d1
            ELSE [d1 EXCEPT !.social_recovery_guardians =
                    {IF r.wallet_address = w THEN [r EXCEPT !.is_active = FALSE] ELSE r :
                       r \in @}]
      taken == \E r \in d2.social_recovery_guardians :
                 /\ r.wallet_address = w
                 /\ r.guardian_address \in guardians
                 /\ r.added_at_block = b
  IN IF f = 1 \/ ~HasWallet(d, w) THEN Threw(d)
     ELSE IF guardians = {} THEN Ok(d2)
     ELSE IF f = 3 THEN Threw(d2)
     ELSE IF taken THEN Ok(d2)
     ELSE Ok([d2 EXCEPT !.social_recovery_guardians = @ \cup
                {[wallet_address |-> w, guardian_address |-> g, added_at_block |-> b,
                  is_active |-> TRUE] : g \in guardians}])

\* select ... .single(): the config row of the wallet, or null (PGRST116) when
\* it has none.
getRecoveryConfig(d, w) ==
  IF \E r \in d.social_recovery_configs : r.wallet_address = w
    THEN CHOOSE r \in d.social_recovery_configs : r.wallet_address = w
    ELSE Null

\* upsert on wallet_address.
upsertDailyLimit(d, w, dailyLimit, spentToday) ==
  IF ~HasWallet(d, w) THEN Threw(d)
  ELSE Ok([d EXCEPT !.daily_limit_state =
             {r \in @ : r.wallet_address # w}
               \cup {[wallet_address |-> w, daily_limit |-> dailyLimit,
                      spent_today |-> spentToday]}])

resetDailyLimit(d, w) ==
  Ok([d EXCEPT !.daily_limit_state =
        {IF r.wallet_address = w THEN [r EXCEPT !.spent_today = 0] ELSE r : r \in @}])

\* The earlier updateDailyLimitSpent: spent = dailyLimit - remaining, unguarded.
updateDailyLimitSpentUnguarded(d, w, remainingLimit) ==
  Ok([d EXCEPT !.daily_limit_state =
        {IF r.wallet_address = w
           THEN [r EXCEPT !.spent_today = r.daily_limit - remainingLimit]
           ELSE r : r \in @}])

\* Reads daily_limit (no row: returns), then writes
\* spent = remaining > dailyLimit ? 0 : dailyLimit - remaining.
updateDailyLimitSpent(d, w, remainingLimit) ==
  Ok([d EXCEPT !.daily_limit_state =
        {IF r.wallet_address = w
           THEN [r EXCEPT !.spent_today =
                   IF remainingLimit > r.daily_limit THEN 0
                   ELSE r.daily_limit - remainingLimit]
           ELSE r : r \in @}])

\* Plain insert into a table without a unique key: every error is thrown.
addModuleTransaction(d, w, value, remainingLimit, b) ==
  IF ~HasWallet(d, w) THEN Threw(d)
  ELSE Ok([d EXCEPT !.module_transactions =
             Append(@, [wallet_address |-> w, value |-> value,
                        remaining_limit |-> remainingLimit, executed_at_block |-> b])])

\* UNIQUE(wallet_address, module_address)
ModuleRows(d, w, m) ==
  {r \in d.wallet_modules : r.wallet_address = w /\ r.module_address = m}

\* upsert with onConflict 'wallet_address,module_address': a new row, or the
\* columns of the statement written over the row that has the key; the
\* disabled_at columns are not among them (0 stands for NULL).
addModuleInserting(d, w, m, b) ==
  IF ~HasWallet(d, w) THEN Threw(d)
  ELSE Ok([d EXCEPT !.wallet_modules =
             @ \cup {[wallet_address |-> w, module_address |-> m, enabled_at_block |-> b,
                      disabled_at_block |-> 0, is_active |-> TRUE]}])

addModule(d, w, m, b) ==
  IF ~HasWallet(d, w) THEN Threw(d)
  ELSE IF ModuleRows(d, w, m) # {}
    THEN Ok([d EXCEPT !.wallet_modules =
               {IF r \in ModuleRows(d, w, m)
                  THEN [r EXCEPT !.enabled_at_block = b, !.is_active = TRUE]
                  ELSE r : r \in @}])
    ELSE Ok([d EXCEPT !.wallet_modules =
               @ \cup {[wallet_address |-> w, module_address |-> m, enabled_at_block |-> b,
                        disabled_at_block |-> 0, is_active |-> TRUE]}])

\* update ... where wallet_address, module_address and is_active = true.
disableModule(d, w, m, b) ==
  Ok([d EXCEPT !.wallet_modules =
        {IF r \in ModuleRows(d, w, m) /\ r.is_active
           THEN [r EXCEPT !.is_active = FALSE, !.disabled_at_block = b]
           ELSE r : r \in @}])

\* ------------------------------------------------------ indexer (indexer.ts)
\* ------------------------------------------------ RPC client (services/quai.ts)
CallIdle == [pc |-> "idle", wake |-> 0, attempt |-> 0, delay |-> 0]

QuaiIdle ==
  [now |-> 0, requestTimestamps |-> <<>>, sent |-> <<>>,
   calls |-> [c \in Callers |-> CallIdle]]

\* The request of a call goes out: fn of withRetry runs req.send().
Send(q, c, attempt, delay) ==
  [q EXCEPT !.sent = Append(@, q.now),
            !.calls[c] = [pc |-> "sent", wake |-> 0, attempt |-> attempt, delay |-> delay]]

\* rateLimit up to its await: old timestamps are dropped; with the window full the
\* call sleeps until the oldest one leaves it, otherwise it records Date.now() and
\* the caller goes on to withRetry.
rateLimit(q, c) ==
  LET kept == SelectSeq(q.requestTimestamps, LAMBDA ts : q.now - ts < WindowMs)
      q1 == [q EXCEPT !.requestTimestamps = kept]
  IN IF Len(kept) >= RequestsPerWindow
       THEN [q1 EXCEPT !.calls[c] =
               [pc |-> "limited", wake |-> q.now + (WindowMs - (q.now - kept[1])),
                attempt |-> 0, delay |-> 0]]
       ELSE Send([q1 EXCEPT !.requestTimestamps = Append(@, q.now)], c, 1, DelayMs)

\* getBlockNumber, getLogs, callContract, getBlockTimestamp: await this.rateLimit().
RpcCall ==
  /\ Len(quai.sent) < MaxSent
  /\ \E c \in Callers :
       /\ quai.calls[c].pc = "idle"
       /\ quai' = rateLimit(quai, c)
  /\ UNCHANGED <<indexerVars, storeVars, retry, stamp, probe, decode, listing, rpc, signal>>

\* The timer of rateLimit fires: push(Date.now()), and the caller goes on.
RateLimitWake ==
  /\ \E c \in Callers :
       /\ quai.calls[c].pc = "limited"
       /\ quai.now >= quai.calls[c].wake
       /\ quai' = Send([quai EXCEPT !.requestTimestamps = Append(@, quai.now)],
                       c, 1, DelayMs)
  /\ UNCHANGED <<indexerVars, storeVars, retry, stamp, probe, decode, listing, rpc, signal>>

\* The request succeeds and the call returns.
RpcReturn ==
  /\ \E c \in Callers :
       /\ quai.calls[c].pc = "sent"
       /\ quai' = [quai EXCEPT !.calls[c] = CallIdle]
  /\ UNCHANGED <<indexerVars, storeVars, retry, stamp, probe, decode, listing, rpc, signal>>

\* The request fails: withRetry throws after the last attempt, and before that
\* sleeps currentDelay, which it then multiplies.
RpcFail ==
  /\ \E c \in Callers : \E call \in {quai.calls[c]} :
       /\ call.pc = "sent"
       /\ quai' = [quai EXCEPT !.calls[c] =
                     IF call.attempt = MaxAttempts THEN CallIdle
                     ELSE [pc |-> "backoff", wake |-> quai.now + call.delay,
                           attempt |-> call.attempt,
                           delay |-> call.delay * BackoffMultiplier]]
  /\ UNCHANGED <<indexerVars, storeVars, retry, stamp, probe, decode, listing, rpc, signal>>

\* The sleep of withRetry ends and fn runs again: the next request goes out.
RpcRetry ==
  /\ Len(quai.sent) < MaxSent
  /\ \E c \in Callers : \E call \in {quai.calls[c]} :
       /\ call.pc = "backoff"
       /\ quai.now >= call.wake
       /\ quai' = Send(quai, c, call.attempt + 1, call.delay)
  /\ UNCHANGED <<indexerVars, storeVars, retry, stamp, probe, decode, listing, rpc, signal>>

\* Time passes.
Tick ==
  /\ quai.now < MaxTime
  /\ quai' = [quai EXCEPT !.now = @ + 1]
  /\ UNCHANGED <<indexerVars, storeVars, retry, stamp, probe, decode, listing, rpc, signal>>

\* ------------------------------------------------ withRetry (utils/retry.ts)
RetryIdle ==
  [pc |-> "idle", maxAttempts |-> 0, delayMs |-> 0, maxDelayMs |-> 0, attempt |-> 0,
   currentDelay |-> 0, lastError |-> "", result |-> "", outcomes |-> <<>>,
   delays |-> <<>>]

\* withRetry(fn, options): the options are read, the loop starts with attempt 1.
WithRetry ==
  /\ retry.pc = "idle"
  /\ \E maxAttempts \in 1 .. MaxAttemptsOption :
       \E delayMs \in 1 .. MaxDelayOption, maxDelayMs \in 1 .. MaxDelayOption :
         retry' = [RetryIdle EXCEPT !.pc = "calling", !.maxAttempts = maxAttempts,
                                    !.delayMs = delayMs, !.maxDelayMs = maxDelayMs,
                                    !.attempt = 1, !.currentDelay = delayMs]
  /\ UNCHANGED <<indexerVars, storeVars, quai, stamp, probe, decode, listing, rpc, signal>>

\* The catch block with the error kept from the first failed attempt.
CatchKeepingFirstError(r, error) ==
  LET r1 == [r EXCEPT !.lastError = IF @ = "" THEN error ELSE @,
                      !.outcomes = Append(@, [ok |-> FALSE, value |-> error])]
  IN IF r.attempt = r.maxAttempts THEN [r1 EXCEPT !.pc = "threw"]
     ELSE [r1 EXCEPT !.pc = "sleeping", !.delays = Append(@, r.currentDelay)]

\* The catch block: lastError = error; after the last attempt break and throw
\* lastError, otherwise sleep(currentDelay).
Catch(r, error) ==
  LET r1 == [r EXCEPT !.lastError = error,
                      !.outcomes = Append(@, [ok |-> FALSE, value |-> error])]
  IN IF r.attempt = r.maxAttempts THEN [r1 EXCEPT !.pc = "threw"]
     ELSE [r1 EXCEPT !.pc = "sleeping", !.delays = Append(@, r.currentDelay)]

\* return await fn(), fn returning a value.
FnReturns ==
  /\ retry.pc = "calling"
  /\ \E v \in Values :
       retry' = [retry EXCEPT !.pc = "returned", !.result = v,
                              !.outcomes = Append(@, [ok |-> TRUE, value |-> v])]
  /\ UNCHANGED <<indexerVars, storeVars, quai, stamp, probe, decode, listing, rpc, signal>>

\* return await fn(), fn throwing.
FnThrows ==
  /\ retry.pc = "calling"
  /\ \E error \in Errors : retry' = Catch(retry, error)
  /\ UNCHANGED <<indexerVars, storeVars, quai, stamp, probe, decode, listing, rpc, signal>>

\* The sleep ends: currentDelay is multiplied and capped, the loop goes on.
SleepEnds ==
  /\ retry.pc = "sleeping"
  /\ retry' = [retry EXCEPT
                 !.pc = "calling", !.attempt = @ + 1,
                 !.currentDelay = Min(@ * BackoffMultiplier, retry.maxDelayMs)]
  /\ UNCHANGED <<indexerVars, storeVars, quai, stamp, probe, decode, listing, rpc, signal>>

\* ------------------------------- block-timestamp cache (services/quai.ts)
\* timestampCache as the sequence of its entries in the insertion order of the Map.
StampIdle ==
  [timestampCache |-> <<>>, requests |-> 0,
   calls |-> [c \in Callers |-> [pc |-> "idle", blockNumber |-> 0, value |-> 0,
                                 hit |-> FALSE]]]

\* The timestamp the chain holds for block n.
BlockTimestamp(n) == 100 + n

CacheIndex(cache, n) == {i \in 1 .. Len(cache) : cache[i].blockNumber = n}

\* Map.set: the value of an existing key is replaced in place, a new key goes last.
MapSet(cache, n, timestamp) ==
  IF CacheIndex(cache, n) # {}
    THEN [i \in 1 .. Len(cache) |->
            IF cache[i].blockNumber = n THEN [cache[i] EXCEPT !.timestamp = timestamp]
            ELSE cache[i]]
    ELSE Append(cache, [blockNumber |-> n, timestamp |-> timestamp])

\* getBlockTimestamp up to its first await: a cached value is returned as it is;
\* otherwise the request goes out (through rateLimit and withRetry).
GetBlockTimestamp ==
  /\ \E c \in Callers, n \in 1 .. MaxCacheBlock :
       /\ stamp.calls[c].pc = "idle"
       /\ \E at \in {CacheIndex(stamp.timestampCache, n)} :
            IF at # {}
              THEN stamp' = [stamp EXCEPT !.calls[c] =
                               [pc |-> "returned", blockNumber |-> n, hit |-> TRUE,
                                value |-> stamp.timestampCache[CHOOSE i \in at : TRUE].timestamp]]
              ELSE /\ stamp.requests < MaxRequests
                   /\ stamp' = [stamp EXCEPT !.requests = @ + 1,
                                 !.calls[c] = [pc |-> "fetching", blockNumber |-> n,
                                               value |-> 0, hit |-> FALSE]]
  /\ UNCHANGED <<indexerVars, storeVars, quai, retry, probe, decode, listing, rpc, signal>>

\* TimestampFetched without the deletion of the first key.
TimestampFetchedWithoutEviction ==
  /\ \E c \in Callers : \E call \in {stamp.calls[c]} :
       /\ call.pc = "fetching"
       /\ LET timestamp == BlockTimestamp(call.blockNumber)
          IN stamp' = [stamp EXCEPT
                         !.timestampCache = MapSet(@, call.blockNumber, timestamp),
                         !.calls[c] = [call EXCEPT !.pc = "returned",
                                                   !.value = timestamp]]
  /\ UNCHANGED <<indexerVars, storeVars, quai, retry, probe, decode, listing, rpc, signal>>

\* withRetry returned the timestamp: with the cache full its first key is deleted,
\* then the entry is set and the value returned.
TimestampFetched ==
  /\ \E c \in Callers : \E call \in {stamp.calls[c]} :
       /\ call.pc = "fetching"
       /\ LET timestamp == BlockTimestamp(call.blockNumber)
              cache == stamp.timestampCache
              room == IF Len(cache) >= TimestampCacheSize /\ cache # <<>>
                      THEN Tail(cache) ELSE cache
          IN stamp' = [stamp EXCEPT
                         !.timestampCache = MapSet(room, call.blockNumber, timestamp),
                         !.calls[c] = [call EXCEPT !.pc = "returned",
                                                   !.value = timestamp]]
  /\ UNCHANGED <<indexerVars, storeVars, quai, retry, probe, decode, listing, rpc, signal>>

\* withRetry threw (an RPC error, a block without timestamp): so does the call.
TimestampFailed ==
  /\ \E c \in Callers :
       /\ stamp.calls[c].pc = "fetching"
       /\ stamp' = [stamp EXCEPT !.calls[c].pc = "threw"]
  /\ UNCHANGED <<indexerVars, storeVars, quai, retry, probe, decode, listing, rpc, signal>>

\* The caller has its answer.
TimestampDone ==
  /\ \E c \in Callers :
       /\ stamp.calls[c].pc \in {"returned", "threw"}
       /\ stamp' = [stamp EXCEPT !.calls[c] = StampIdle.calls[c]]
  /\ UNCHANGED <<indexerVars, storeVars, quai, retry, probe, decode, listing, rpc, signal>>

\* ------------------------------------------------ health service (services/health.ts)
ProbeIdle == [pc |-> "idle", url |-> "", statusCode |-> 0, health |-> <<>>]

Check(passes) == IF passes THEN "pass" ELSE "fail"

\* getHealthStatus with the status always healthy.
getHealthStatusAlwaysHealthy(rpcOk, storeOk, currentBlock, state, running) ==
  [status |-> "healthy",
   checks |-> [quaiRpc |-> Check(rpcOk), supabase |-> Check(storeOk),
               indexer |-> Check(running)],
   currentBlock |-> IF rpcOk THEN currentBlock ELSE 0 - 1,
   lastIndexedBlock |-> IF storeOk THEN state.lastIndexedBlock ELSE 0 - 1,
   blocksBehind |-> 0 - 1, isSyncing |-> storeOk /\ state.isSyncing]

\* getHealthStatus: rpcOk and storeOk tell whether quai.getBlockNumber() and
\* supabase.getIndexerState() returned (currentBlock, state) or threw; running is
\* isIndexerRunning. A null in the details is written -1.
getHealthStatus(rpcOk, storeOk, currentBlock, state, running) ==
  LET known == rpcOk /\ storeOk
      isSyncingRead == storeOk /\ state.isSyncing
      blocksBehind ==
        IF known THEN Max(0, currentBlock - state.lastIndexedBlock - Confirmations)
        ELSE 0 - 1
      checks ==
        [quaiRpc |-> Check(rpcOk),
         supabase |-> Check(storeOk),
         indexer |-> Check(/\ ~(known /\ blocksBehind > MaxBlocksBehind /\ ~isSyncingRead)
                           /\ running)]
      allPassing == \A c \in DOMAIN checks : checks[c] = "pass"
  IN [status |-> IF allPassing THEN "healthy" ELSE "unhealthy", checks |-> checks,
      currentBlock |-> IF rpcOk THEN currentBlock ELSE 0 - 1,
      lastIndexedBlock |-> IF storeOk THEN state.lastIndexedBlock ELSE 0 - 1,
      blocksBehind |-> blocksBehind, isSyncing |-> isSyncingRead]

\* The request listener with handleHealthCheck, handleReadinessCheck and
\* handleLivenessCheck: the status code written, and the health status the
\* answer was computed from.
Respond(url, h) ==
  LET isReady == /\ h.checks.quaiRpc = "pass"
                 /\ h.checks.supabase = "pass"
                 /\ h.checks.indexer = "pass"
  IN [pc |-> "answered", url |-> url, health |-> h,
      statusCode |->
        CASE url = "/health" -> IF h.status = "healthy" THEN 200 ELSE 503
          [] url = "/ready" -> IF isReady THEN 200 ELSE 503
          [] url = "/live" -> 200
          [] OTHER -> 404]

Urls == {"/health", "/ready", "/live", "/other"}

\* A GET request answered while the indexer runs: the probe reads the chain
\* height and the checkpoint row as they are.
HealthProbe ==
  /\ \E url \in Urls, rpcOk \in BOOLEAN, storeOk \in BOOLEAN :
       probe' = Respond(url, getHealthStatus(rpcOk, storeOk, tip,
                          [lastIndexedBlock |-> lastIndexedBlock, isSyncing |-> isSyncing],
                          isRunning))
  /\ UNCHANGED <<indexerVars, storeVars, quai, retry, stamp, decode, listing, rpc, signal>>

\* A GET request answered in any state of the chain, the store and the indexer.
HealthRequest ==
  /\ \E url \in Urls, rpcOk \in BOOLEAN, storeOk \in BOOLEAN, running \in BOOLEAN,
        currentBlock \in 0 .. MaxTip,
        state \in [lastIndexedBlock : 0 .. MaxTip, isSyncing : BOOLEAN] :
       probe' = Respond(url, getHealthStatus(rpcOk, storeOk, currentBlock, state, running))
  /\ UNCHANGED <<indexerVars, storeVars, quai, retry, stamp, decode, listing, rpc, signal>>

\* ------------------------------------ decodeAddressArray (events/index.ts)
\* Strings are sequences of characters.
HexDigits == <<"0", "1", "2", "3", "4", "5", "6", "7", "8", "9",
               "a", "b", "c", "d", "e", "f">>

\* The value of a hexadecimal digit, -1 for any other character.
HexValue(c) ==
  IF \E i \in 1 .. 16 : HexDigits[i] = c
    THEN (CHOOSE i \in 1 .. 16 : HexDigits[i] = c) - 1
    ELSE 0 - 1

\* String.prototype.slice(begin, end) for 0 <= begin <= end.
slice(str, begin, end) == SubSeq(str, begin + 1, Min(end, Len(str)))

RECURSIVE ParseDigits(_, _, _)
ParseDigits(str, i, acc) ==
  IF i > Len(str) \/ HexValue(str[i]) < 0 THEN acc
  ELSE ParseDigits(str, i + 1, acc * 16 + HexValue(str[i]))

\* parseInt(str, 16): a leading 0x is skipped, then the longest run of hex digits
\* is read; NaN, written -1, when there is none.
parseInt(str) ==
  LET digits == IF Len(str) >= 2 /\ str[1] = "0" /\ str[2] = "x"
                THEN slice(str, 2, Len(str)) ELSE str
  IN IF digits = <<>> \/ HexValue(digits[1]) < 0 THEN 0 - 1
     ELSE ParseDigits(digits, 1, 0)

Returned(value) == [ok |-> TRUE, value |-> value]
Thrown == [ok |-> FALSE, value |-> <<>>]

\* decodeAddressArray without the bound on the declared length.
decodeAddressArrayAnyLength(hexData) ==
  LET data == slice(hexData, 2, Len(hexData))
      length == parseInt(slice(data, WordChars, 2 * WordChars))
  IN IF hexData = <<>> THEN Thrown
     ELSE IF slice(hexData, 0, 2) # <<"0", "x">> THEN Thrown
     ELSE IF Len(hexData) < 2 + 2 * WordChars THEN Thrown
     ELSE IF length < 0 THEN Thrown
     ELSE IF length = 0 THEN Returned(<<>>)
     ELSE IF Len(data) < 2 * WordChars + length * WordChars THEN Thrown
     ELSE Returned([i \in 1 .. length |->
            <<"0", "x">> \o slice(data, 2 * WordChars + i * WordChars - AddressChars,
                                  2 * WordChars + i * WordChars)])

\* decodeAddressArray: the checks in the order of the code, then for each i the
\* last AddressChars characters of word i after the offset and length words.
decodeAddressArray(hexData) ==
  LET data == slice(hexData, 2, Len(hexData))
      length == parseInt(slice(data, WordChars, 2 * WordChars))
  IN IF hexData = <<>> THEN Thrown
     ELSE IF slice(hexData, 0, 2) # <<"0", "x">> THEN Thrown
     ELSE IF Len(hexData) < 2 + 2 * WordChars THEN Thrown
     ELSE IF length < 0 \/ length > ArrayLimit THEN Thrown
     ELSE IF length = 0 THEN Returned(<<>>)
     ELSE IF Len(data) < 2 * WordChars + length * WordChars THEN Thrown
     ELSE Returned([i \in 1 .. length |->
            <<"0", "x">> \o slice(data, 2 * WordChars + i * WordChars - AddressChars,
                                  2 * WordChars + i * WordChars)])

\* n as a word of hexadecimal digits, padded with zeros on the left.
RECURSIVE ToHex(_, _)
ToHex(n, width) ==
  IF width = 0 THEN <<>>
  ELSE Append(ToHex(n \div 16, width - 1), HexDigits[(n % 16) + 1])

RECURSIVE Concat(_)
Concat(words) == IF words = <<>> THEN <<>> ELSE Head(words) \o Concat(Tail(words))

\* The ABI encoding of an address[] return value as the node answers quai_call:
\* the offset word (one word of 32 bytes, half as many as a word has characters),
\* the length word, one word for each address.
encodeAddressArray(xs) ==
  <<"0", "x">> \o ToHex(WordChars \div 2, WordChars) \o ToHex(Len(xs), WordChars)
    \o Concat([i \in 1 .. Len(xs) |->
                 ToHex(0, WordChars - AddressChars) \o slice(xs[i], 2, Len(xs[i]))])

\* Addresses, 0x and lowercase hex digits, and the lists of them up to one more
\* than decodeAddressArray accepts.
Addresses == {<<"0", "x">> \o a : a \in [1 .. AddressChars -> {"a", "b"}]}
AddressLists == UNION {[1 .. n -> Addresses] : n \in 0 .. ArrayLimit + 1}

\* Any string of up to MaxInput of these characters.
InputStrings == UNION {[1 .. n -> {"0", "1", "2", "x"}] : n \in 0 .. MaxInput}

DecodeIdle == [pc |-> "idle", xs |-> <<>>, hexData |-> <<>>, result |-> Thrown]

\* handleWalletRegistered decodes what getOwners() returned for owners xs.
DecodeEncoded ==
  /\ decode.pc = "idle"
  /\ \E xs \in AddressLists : \E hexData \in {encodeAddressArray(xs)} :
       decode' = [pc |-> "encoded", xs |-> xs, hexData |-> hexData,
                  result |-> decodeAddressArray(hexData)]
  /\ UNCHANGED <<indexerVars, storeVars, quai, retry, stamp, probe, listing, rpc, signal>>

\* decodeAddressArray is given any string.
DecodeAny ==
  /\ decode.pc = "idle"
  /\ \E hexData \in InputStrings :
       decode' = [pc |-> "any", xs |-> <<>>, hexData |-> hexData,
                  result |-> decodeAddressArray(hexData)]
  /\ UNCHANGED <<indexerVars, storeVars, quai, retry, stamp, probe, listing, rpc, signal>>

DecodeReturn ==
  /\ decode.pc # "idle"
  /\ decode' = DecodeIdle
  /\ UNCHANGED <<indexerVars, storeVars, quai, retry, stamp, probe, listing, rpc, signal>>

\* ------------------------------ getAllWalletAddresses (services/supabase.ts)
\* rows: the addresses of the wallets table in the order the store returns its
\* rows, the same for every page of one call (nothing writes the table between the
\* pages: the indexer calls this in start and before a gap backfill, the script
\* before its loop); address is the primary key, so no address is there twice.
ListingIdle ==
  [pc |-> "idle", rows |-> <<>>, offset |-> 0, addresses |-> <<>>, pages |-> <<>>]

\* select('address').range(from, to): the rows from-th to to-th, counted from 0,
\* both included, as many of them as there are.
range(rows, from, to) ==
  IF from >= Len(rows) THEN <<>> ELSE SubSeq(rows, from + 1, Min(to + 1, Len(rows)))

\* The call with a single query and no loop: the first page is all it returns.
readPageUnpaginated(l) ==
  LET data == range(l.rows, l.offset, l.offset + PAGE_SIZE - 1)
  IN [l EXCEPT !.pc = "returned", !.addresses = @ \o data, !.pages = Append(@, Len(data))]

\* One iteration of the while (true) loop: the page is read; an empty page ends the
\* loop; its addresses are pushed; a page shorter than PAGE_SIZE ends the loop;
\* otherwise offset += PAGE_SIZE.
readPage(l) ==
  LET data == range(l.rows, l.offset, l.offset + PAGE_SIZE - 1)
      l1 == [l EXCEPT !.pages = Append(@, Len(data))]
  IN IF Len(data) = 0 THEN [l1 EXCEPT !.pc = "returned"]
     ELSE IF Len(data) < PAGE_SIZE
            THEN [l1 EXCEPT !.pc = "returned", !.addresses = @ \o data]
            ELSE [l1 EXCEPT !.addresses = @ \o data, !.offset = @ + PAGE_SIZE]

\* The tables the call can find: up to MaxRows rows with different addresses.
WalletTables ==
  {rows \in UNION {[1 .. n -> 1 .. MaxRows] : n \in 0 .. MaxRows} :
     \A i, j \in 1 .. Len(rows) : i # j => rows[i] # rows[j]}

\* getAllWalletAddresses() is called: addresses = [], offset = 0.
GetAllWalletAddresses ==
  /\ listing.pc = "idle"
  /\ \E rows \in WalletTables :
       listing' = [ListingIdle EXCEPT !.pc = "reading", !.rows = rows]
  /\ UNCHANGED <<indexerVars, storeVars, quai, retry, stamp, probe, decode, rpc, signal>>

\* The query of an iteration answers with data.
PageRead ==
  /\ listing.pc = "reading"
  /\ listing' = readPage(listing)
  /\ UNCHANGED <<indexerVars, storeVars, quai, retry, stamp, probe, decode, rpc, signal>>

\* The query of an iteration answers with an error: throw error.
PageFailed ==
  /\ listing.pc = "reading"
  /\ listing' = [listing EXCEPT !.pc = "threw"]
  /\ UNCHANGED <<indexerVars, storeVars, quai, retry, stamp, probe, decode, rpc, signal>>

\* The caller has the answer; the next call starts afresh.
ListingDone ==
  /\ listing.pc \in {"returned", "threw"}
  /\ listing' = ListingIdle
  /\ UNCHANGED <<indexerVars, storeVars, quai, retry, stamp, probe, decode, rpc, signal>>


\* ------------------------------------- JSON-RPC responses (services/quai.ts)
\* The four calls of the client and the quai_ method each posts.
Methods == {"getBlockNumber", "getLogs", "callContract", "getBlockTimestamp"}

\* String(undefined), what parseInt makes of a missing json.result.
Undefined == <<"u", "n", "d", "e", "f", "i", "n", "e", "d">>

\* What one attempt gets: a response with a result (a height in hexadecimal), a
\* response with an error object and no result, or a failed req.send().
Responses ==
  {[kind |-> "result", result |-> <<"0", "x">> \o ToHex(n, 1)] : n \in 0 .. MaxTip}
    \cup {[kind |-> "error", result |-> Undefined], [kind |-> "throw", result |-> Undefined]}

\* The function each call hands to withRetry, run on the response of one attempt:
\* getBlockNumber parses json.result whatever the response holds, the other three
\* throw when json.error is set.
fn(method, response) ==
  IF response.kind = "throw" THEN Thrown
  ELSE IF method = "getBlockNumber" THEN Returned(parseInt(response.result))
  ELSE IF response.kind = "error" THEN Thrown
  ELSE Returned(parseInt(response.result))

JsonRpcIdle ==
  [pc |-> "idle", method |-> "", attempt |-> 0, responses |-> <<>>, value |-> 0,
   quaiRpcCheck |-> ""]

\* A call of the client: withRetry starts its first attempt.
JsonRpcRequest ==
  /\ rpc.pc = "idle"
  /\ \E method \in Methods :
       rpc' = [JsonRpcIdle EXCEPT !.pc = "calling", !.method = method, !.attempt = 1]
  /\ UNCHANGED <<indexerVars, storeVars, quai, retry, stamp, probe, decode, listing, signal>>

\* The response to an attempt arrives: withRetry returns what fn returns, throws
\* after the last attempt, runs fn again otherwise.
JsonRpcResponse ==
  /\ rpc.pc = "calling"
  /\ \E response \in Responses : \E r \in {fn(rpc.method, response)} :
       rpc' = [rpc EXCEPT
                 !.responses = Append(@, response),
                 !.pc = IF r.ok THEN "returned"
                        ELSE IF rpc.attempt >= MaxAttempts THEN "threw" ELSE "calling",
                 !.value = IF r.ok THEN r.value ELSE @,
                 !.attempt = IF r.ok \/ rpc.attempt >= MaxAttempts THEN @ ELSE @ + 1]
  /\ UNCHANGED <<indexerVars, storeVars, quai, retry, stamp, probe, decode, listing, signal>>

\* checkQuaiRpc, the caller of getBlockNumber in the health service: pass when the
\* call returned, fail when it threw.
checkQuaiRpc ==
  /\ rpc.pc \in {"returned", "threw"}
  /\ rpc.method = "getBlockNumber"
  /\ rpc.quaiRpcCheck = ""
  /\ rpc' = [rpc EXCEPT !.quaiRpcCheck = IF rpc.pc = "returned" THEN "pass" ELSE "fail"]
  /\ UNCHANGED <<indexerVars, storeVars, quai, retry, stamp, probe, decode, listing, signal>>

InitIndexer ==
  /\ chain = {}
  /\ tip = 0
  /\ lastIndexedBlock = 0
  /\ isSyncing = FALSE
  /\ storeWallets = {}
  /\ trackedWallets = {}
  /\ isRunning = FALSE
  /\ pc = "init"
  /\ bf = NoBackfill
  /\ dispatched = <<>>
  /\ lastRange = NoRange
  /\ script = ScriptIdle
  /\ quai = QuaiIdle
  /\ retry = RetryIdle
  /\ stamp = StampIdle
  /\ probe = ProbeIdle
  /\ decode = DecodeIdle
  /\ listing = ListingIdle
  /\ rpc = JsonRpcIdle
  /\ signal = "none"

Init ==
  /\ InitIndexer
  /\ events = <<>>
  /\ cursor = 0
  /\ retries = 0
  /\ db = EmptyDb

\* Indexer.start up to the call of backfill or poll.
Start ==
  /\ UNCHANGED <<storeVars, serviceVars>>
  /\ pc = "init"
  /\ trackedWallets' = trackedWallets \cup storeWallets
  /\ LET startBlock == Max(lastIndexedBlock + 1, StartBlock)
         safeBlock == tip - Confirmations
     IN IF startBlock < safeBlock
        THEN /\ pc' = "backfill"
             /\ bf' = [from |-> startBlock, to |-> safeBlock, start |-> startBlock,
                       caller |-> "start"]
             /\ isSyncing' = TRUE
             /\ UNCHANGED isRunning
        ELSE /\ pc' = "poll"
             /\ isRunning' = TRUE
             /\ UNCHANGED <<bf, isSyncing>>
  /\ UNCHANGED <<chain, tip, lastIndexedBlock, storeWallets, dispatched,
                 lastRange, script>>

\* Indexer.start of a deployment that sets START_BLOCK.
StartConfigured ==
  /\ UNCHANGED <<storeVars, serviceVars>>
  /\ pc = "init"
  /\ trackedWallets' = trackedWallets \cup storeWallets
  /\ LET startBlock == Max(lastIndexedBlock + 1, ConfiguredStartBlock)
         safeBlock == tip - Confirmations
     IN IF startBlock < safeBlock
        THEN /\ pc' = "backfill"
             /\ bf' = [from |-> startBlock, to |-> safeBlock, start |-> startBlock,
                       caller |-> "start"]
             /\ isSyncing' = TRUE
             /\ UNCHANGED isRunning
        ELSE /\ pc' = "poll"
             /\ isRunning' = TRUE
             /\ UNCHANGED <<bf, isSyncing>>
  /\ UNCHANGED <<chain, tip, lastIndexedBlock, storeWallets, dispatched,
                 lastRange, script>>

\* One iteration of the loop of Indexer.backfill; after the last one, the return
\* to the caller.
BackfillBatch ==
  /\ UNCHANGED <<storeVars, serviceVars>>
  /\ pc = "backfill"
  /\ LET end == Min(bf.start + BatchSize - 1, bf.to) IN
     \E f \in Failures :
       /\ IndexAndCommit(bf.start, end, f, bf.caller)
       /\ IF lastRange'.ok
          THEN IF bf.start + BatchSize <= bf.to
               THEN /\ bf' = [bf EXCEPT !.start = @ + BatchSize]
                    /\ UNCHANGED <<pc, isSyncing, isRunning>>
               ELSE /\ bf' = NoBackfill
                    /\ isSyncing' = FALSE
                    /\ pc' = "poll"
                    /\ isRunning' = IF bf.caller = "start" THEN TRUE ELSE isRunning
          ELSE /\ bf' = NoBackfill
               /\ pc' = IF bf.caller = "start" THEN "exited" ELSE "poll"
               /\ UNCHANGED <<isSyncing, isRunning>>
  /\ UNCHANGED <<chain, tip, script>>

\* The poll loop without its large-gap branch: whatever the gap, the range
\* [checkpoint + 1, safeBlock] is indexed directly.
PollIterationAlwaysDirect ==
  /\ UNCHANGED <<storeVars, serviceVars>>
  /\ pc = "poll"
  /\ isRunning
  /\ LET safeBlock == tip - Confirmations IN
     /\ lastIndexedBlock < safeBlock
     /\ \E f \in Failures :
          IndexAndCommit(lastIndexedBlock + 1, safeBlock, f, "poll")
     /\ UNCHANGED <<pc, bf, isSyncing>>
  /\ UNCHANGED <<chain, tip, isRunning, script>>

\* One iteration of the loop of Indexer.poll that finds blocks to index.
PollIteration ==
  /\ UNCHANGED <<storeVars, serviceVars>>
  /\ pc = "poll"
  /\ isRunning
  /\ LET safeBlock == tip - Confirmations IN
     /\ lastIndexedBlock < safeBlock
     /\ IF safeBlock - lastIndexedBlock > BatchSize
        THEN /\ trackedWallets' = storeWallets
             /\ pc' = "backfill"
             /\ bf' = [from |-> lastIndexedBlock + 1, to |-> safeBlock,
                       start |-> lastIndexedBlock + 1, caller |-> "poll"]
             /\ isSyncing' = TRUE
             /\ UNCHANGED <<lastIndexedBlock, storeWallets, dispatched, lastRange>>
        ELSE /\ \E f \in Failures :
                  IndexAndCommit(lastIndexedBlock + 1, safeBlock, f, "poll")
             /\ UNCHANGED <<pc, bf, isSyncing>>
  /\ UNCHANGED <<chain, tip, isRunning, script>>

\* Indexer.stop, called by the signal handlers.
Stop ==
  /\ UNCHANGED <<storeVars, serviceVars>>
  /\ pc \in {"backfill", "poll", "indexing"}
  /\ isRunning
  /\ isRunning' = FALSE
  /\ UNCHANGED <<chain, tip, lastIndexedBlock, isSyncing, storeWallets,
                 trackedWallets, pc, bf, dispatched, lastRange, script>>

\* The poll loop finds isRunning false and returns; the process ends.
PollExit ==
  /\ UNCHANGED <<storeVars, serviceVars>>
  /\ pc = "poll"
  /\ ~isRunning
  /\ pc' = "exited"
  /\ UNCHANGED <<chain, tip, lastIndexedBlock, isSyncing, storeWallets,
                 trackedWallets, isRunning, bf, dispatched, lastRange, script>>

\* A new process: new Indexer(), the store as the last one left it.
Restart ==
  /\ UNCHANGED <<storeVars, serviceVars>>
  /\ pc = "exited"
  /\ pc' = "init"
  /\ trackedWallets' = {}
  /\ isRunning' = FALSE
  /\ bf' = NoBackfill
  /\ UNCHANGED <<chain, tip, lastIndexedBlock, isSyncing, storeWallets,
                 dispatched, lastRange, script>>

Next ==
  \/ MineBlock
  \/ Start
  \/ BackfillBatch
  \/ PollIteration
  \/ Stop
  \/ PollExit
  \/ Restart

Spec == Init /\ [][Next]_vars

\* The indexer service of a deployment that sets START_BLOCK.
NextStartBlock ==
  \/ MineBlock
  \/ StartConfigured
  \/ BackfillBatch
  \/ PollIteration
  \/ Stop
  \/ PollExit
  \/ Restart

SpecStartBlock == Init /\ [][NextStartBlock]_vars

NextRateLimit ==
  \/ RpcCall
  \/ RateLimitWake
  \/ RpcReturn
  \/ RpcFail
  \/ RpcRetry
  \/ Tick

SpecRateLimit == Init /\ [][NextRateLimit]_vars

NextRetry ==
  \/ WithRetry
  \/ FnReturns
  \/ FnThrows
  \/ SleepEnds

SpecRetry == Init /\ [][NextRetry]_vars

NextTimestamps ==
  \/ GetBlockTimestamp
  \/ TimestampFetched
  \/ TimestampFailed
  \/ TimestampDone

SpecTimestamps == Init /\ [][NextTimestamps]_vars

\* The indexer up to a request to the health server, and the answer to it.
NextHealth ==
  \/ probe.pc = "idle" /\ Next
  \/ probe.pc = "idle" /\ HealthProbe

SpecHealth == Init /\ [][NextHealth]_vars

SpecProbe == Init /\ [][HealthRequest]_vars

NextDecode ==
  \/ DecodeEncoded
  \/ DecodeAny
  \/ DecodeReturn

SpecDecode == Init /\ [][NextDecode]_vars

\* One run of the indexer, from start on, on a chain that also holds logs that do
\* not decode.
NextUndecodable ==
  \/ MineBlockUndecodable
  \/ Start
  \/ BackfillBatch
  \/ PollIteration

SpecUndecodable == Init /\ [][NextUndecodable]_vars

\* BackfillBatch and PollIteration when every RPC and store call does what it
\* is asked to: no getLogs call fails, no checkpoint write fails, and a handler
\* throws only when the store rejects its write.
BackfillBatchLive ==
  /\ UNCHANGED <<storeVars, serviceVars>>
  /\ pc = "backfill"
  /\ LET end == Min(bf.start + BatchSize - 1, bf.to) IN
       /\ IndexAndCommit(bf.start, end, 0, bf.caller)
       /\ IF lastRange'.ok
          THEN IF bf.start + BatchSize <= bf.to
               THEN /\ bf' = [bf EXCEPT !.start = @ + BatchSize]
                    /\ UNCHANGED <<pc, isSyncing, isRunning>>
               ELSE /\ bf' = NoBackfill
                    /\ isSyncing' = FALSE
                    /\ pc' = "poll"
                    /\ isRunning' = IF bf.caller = "start" THEN TRUE ELSE isRunning
          ELSE /\ bf' = NoBackfill
               /\ pc' = IF bf.caller = "start" THEN "exited" ELSE "poll"
               /\ UNCHANGED <<isSyncing, isRunning>>
  /\ UNCHANGED <<chain, tip, script>>

PollIterationLive ==
  /\ UNCHANGED <<storeVars, serviceVars>>
  /\ pc = "poll"
  /\ isRunning
  /\ LET safeBlock == tip - Confirmations IN
     /\ lastIndexedBlock < safeBlock
     /\ IF safeBlock - lastIndexedBlock > BatchSize
        THEN /\ trackedWallets' = storeWallets
             /\ pc' = "backfill"
             /\ bf' = [from |-> lastIndexedBlock + 1, to |-> safeBlock,
                       start |-> lastIndexedBlock + 1, caller |-> "poll"]
             /\ isSyncing' = TRUE
             /\ UNCHANGED <<lastIndexedBlock, storeWallets, dispatched, lastRange>>
        ELSE /\ IndexAndCommit(lastIndexedBlock + 1, safeBlock, 0, "poll")
             /\ UNCHANGED <<pc, bf, isSyncing>>
  /\ UNCHANGED <<chain, tip, isRunning, script>>

\* The indexer kept running on calls that succeed: no stop request, an exited
\* process started again, every step that can be taken taken in the end.
NextLive ==
  \/ MineBlockForeign
  \/ Start
  \/ BackfillBatchLive
  \/ PollIterationLive
  \/ Restart

SpecLive ==
  /\ Init
  /\ [][NextLive]_vars
  /\ WF_vars(Start)
  /\ WF_vars(Restart)
  /\ WF_vars(BackfillBatchLive)
  /\ WF_vars(PollIterationLive)

NextListing ==
  \/ GetAllWalletAddresses
  \/ PageRead
  \/ PageFailed
  \/ ListingDone

SpecListing == Init /\ [][NextListing]_vars

NextJsonRpc ==
  \/ JsonRpcRequest
  \/ JsonRpcResponse
  \/ checkQuaiRpc

SpecJsonRpc == Init /\ [][NextJsonRpc]_vars

\* ------------------------------------------------ shutdown (index.ts)
\* The small-gap branch of an iteration of the poll loop in two steps, so that a
\* signal can arrive while the range is being indexed: the range is chosen and
\* indexBlockRange is awaited; then it and updateIndexerState end.
PollBegin ==
  /\ UNCHANGED <<storeVars, serviceVars>>
  /\ pc = "poll"
  /\ isRunning
  /\ LET safeBlock == tip - Confirmations IN
     /\ lastIndexedBlock < safeBlock
     /\ safeBlock - lastIndexedBlock <= BatchSize
     /\ bf' = [from |-> lastIndexedBlock + 1, to |-> safeBlock,
               start |-> lastIndexedBlock + 1, caller |-> "poll"]
  /\ pc' = "indexing"
  /\ UNCHANGED <<chain, tip, lastIndexedBlock, isSyncing, storeWallets, trackedWallets,
                 isRunning, dispatched, lastRange, script>>

PollFinish ==
  /\ UNCHANGED <<storeVars, serviceVars>>
  /\ pc = "indexing"
  /\ \E f \in Failures : IndexAndCommit(bf.from, bf.to, f, "poll")
  /\ pc' = "poll"
  /\ bf' = NoBackfill
  /\ UNCHANGED <<chain, tip, isSyncing, isRunning, script>>

\* Indexer.stop has been called while the poll loop, or a backfill it called, runs.
StopRequested ==
  /\ ~isRunning
  /\ pc \in {"poll", "indexing"} \/ (pc = "backfill" /\ bf.caller = "poll")

\* The signal handler: await indexer.stop(); process.exit(0). The exit comes when
\* the health server and the subscription are closed, whatever the poll loop is
\* awaiting at that moment.
ProcessExit ==
  /\ UNCHANGED <<storeVars, serviceVars>>
  /\ StopRequested
  /\ pc' = "exited"
  /\ bf' = NoBackfill
  /\ UNCHANGED <<chain, tip, lastIndexedBlock, isSyncing, storeWallets,
                 trackedWallets, isRunning, dispatched, lastRange, script>>

\* A signal arrives while start() awaits its backfill: the handler calls
\* indexer.stop(), which sets isRunning = false and awaits the closing of the
\* health server and of the subscription.
SignalDuringStartup ==
  /\ pc = "backfill"
  /\ bf.caller = "start"
  /\ signal = "none"
  /\ signal' = "stopping"
  /\ isRunning' = FALSE
  /\ UNCHANGED <<chain, tip, lastIndexedBlock, isSyncing, storeWallets, trackedWallets,
                 pc, bf, dispatched, lastRange, script>>
  /\ UNCHANGED <<storeVars, quai, retry, stamp, probe, decode, listing, rpc>>

\* stop() has returned: process.exit(0), whatever start() or the poll loop is
\* awaiting.
SignalExit ==
  /\ signal = "stopping"
  /\ pc # "exited"
  /\ pc' = "exited"
  /\ bf' = NoBackfill
  /\ UNCHANGED <<chain, tip, lastIndexedBlock, isSyncing, storeWallets,
                 trackedWallets, isRunning, dispatched, lastRange, script>>
  /\ UNCHANGED <<storeVars, serviceVars>>

\* One process from its start to its exit, with a signal during the startup
\* backfill.
NextStartupStop ==
  \/ MineBlock
  \/ Start
  \/ BackfillBatch
  \/ PollIteration
  \/ SignalDuringStartup
  \/ SignalExit

SpecStartupStop == Init /\ [][NextStartupStop]_vars

NextShutdown ==
  \/ Next
  \/ PollBegin
  \/ PollFinish
  \/ ProcessExit

SpecShutdown == Init /\ [][NextShutdown]_vars


\* ------------------------------------- standalone backfill (backfill.ts)
\* The first loop of a batch: every factory log is handled, then its wallet is
\* added to the script's tracked set.
RECURSIVE ProcessFactoryLogs(_, _, _, _)
ProcessFactoryLogs(entries, i, failAt, st) ==
  IF i > Len(entries) THEN st
  ELSE IF decodeEvent(entries[i].log) = Null
         THEN ProcessFactoryLogs(entries, i + 1, failAt, st)
  ELSE LET l == decodeEvent(entries[i].log)
           st1 == [st EXCEPT !.dispatched = Append(@, l)]
       IN IF i = failAt \/ ~HandlerCanSucceed(l, st.wallets)
          THEN [st1 EXCEPT !.ok = FALSE]
          ELSE ProcessFactoryLogs(entries, i + 1, failAt,
                 [st1 EXCEPT !.wallets = @ \cup {l.wallet},
                             !.tracked = IF IsFactoryEvent(l) THEN @ \cup {l.wallet} ELSE @])

\* The second loop of a batch: wallet and module logs, sorted, handled in turn.
RECURSIVE ProcessOtherLogs(_, _, _, _)
ProcessOtherLogs(entries, i, failAt, st) ==
  IF i > Len(entries) THEN st
  ELSE IF decodeEvent(entries[i].log) = Null
         THEN ProcessOtherLogs(entries, i + 1, failAt, st)
  ELSE LET l == decodeEvent(entries[i].log)
           st1 == [st EXCEPT !.dispatched = Append(@, l)]
       IN IF i = failAt \/ ~HandlerCanSucceed(l, st.wallets)
          THEN [st1 EXCEPT !.ok = FALSE]
          ELSE ProcessOtherLogs(entries, i + 1, failAt, st1)

\* The body of one batch [start, end] of the script, up to the checkpoint write.
backfillBatch(start, end, f) ==
  IF f = -1 THEN [ScanState(script.tracked) EXCEPT !.ok = FALSE]
  ELSE LET factoryLogs == SortLogs({Entry(l, 0) : l \in getLogs({Factory}, start, end)})
           g == IF f > Len(factoryLogs) THEN f - Len(factoryLogs) ELSE 0
           allLogs(tracked) ==
             {Entry(l, 1) : l \in WalletLogs(ScriptWalletLogRequests(tracked), start, end)}
               \cup {Entry(l, 2) : l \in getLogs({ModuleAddr}, start, end)}
       IN CHOOSE r \in {IF st1.ok THEN ProcessOtherLogs(SortLogs(allLogs(st1.tracked)), 1, g, st1)
                                  ELSE st1 :
                          st1 \in {ProcessFactoryLogs(factoryLogs, 1, f, ScanState(script.tracked))}} : TRUE

\* backfill() of the script up to its loop: the range comes from BACKFILL_FROM
\* (default config.indexer.startBlock) and BACKFILL_TO (default the current block).
ScriptStart ==
  /\ UNCHANGED <<storeVars, serviceVars>>
  /\ script.pc = "idle"
  /\ script.runs < MaxRuns
  /\ \E fromBlock \in {StartBlock} \cup (1 .. tip), toBlock \in 1 .. tip :
       /\ fromBlock <= toBlock
       /\ script' = [pc |-> "run", from |-> fromBlock, to |-> toBlock,
                     start |-> fromBlock, tracked |-> storeWallets,
                     runs |-> script.runs + 1]
  /\ isSyncing' = TRUE
  /\ UNCHANGED <<chain, tip, lastIndexedBlock, storeWallets, trackedWallets, isRunning,
                 pc, bf, dispatched, lastRange>>

\* One iteration of the script's loop; after the last one, setIsSyncing(false).
ScriptBatch ==
  /\ UNCHANGED <<storeVars, serviceVars>>
  /\ script.pc = "run"
  /\ LET end == Min(script.start + BatchSize - 1, script.to) IN
     \E f \in Failures : \E st \in {backfillBatch(script.start, end, f)} :
       LET ok == st.ok /\ f # -2
           last == script.start + BatchSize > script.to
       IN /\ storeWallets' = st.wallets
          /\ dispatched' = st.dispatched
          /\ lastIndexedBlock' = IF ok THEN end ELSE lastIndexedBlock
          /\ lastRange' = [from |-> script.start, to |-> end, ok |-> ok, by |-> "script"]
          /\ script' = [script EXCEPT !.tracked = st.tracked,
                                      !.start = IF ok THEN @ + BatchSize ELSE @,
                                      !.pc = IF ~ok THEN "failed"
                                             ELSE IF last THEN "done" ELSE "run"]
          /\ isSyncing' = IF ok /\ last THEN FALSE ELSE isSyncing
  /\ UNCHANGED <<chain, tip, trackedWallets, isRunning, pc, bf>>

\* The script's process ends (exit code 0 after the loop, 1 after a failed batch);
\* it can be run again.
ScriptExit ==
  /\ UNCHANGED <<storeVars, serviceVars>>
  /\ script.pc \in {"done", "failed"}
  /\ script' = [ScriptIdle EXCEPT !.runs = script.runs]
  /\ UNCHANGED <<chain, tip, lastIndexedBlock, isSyncing, storeWallets, trackedWallets,
                 isRunning, pc, bf, dispatched, lastRange>>

NextBackfill ==
  \/ MineBlock
  \/ ScriptStart
  \/ ScriptBatch
  \/ ScriptExit

SpecBackfill == Init /\ [][NextBackfill]_vars


\* ------------------------------------------- event handlers (events/index.ts)
\* A decoded event: who is the owner, approver or guardian it names, hash its
\* txHash or recoveryHash, n its threshold, limit or remainingLimit.
Ev(name, b, who, hash, n, owners) ==
  [name |-> name, wallet |-> StoreWallet, blockNumber |-> b, who |-> who,
   hash |-> hash, n |-> n, owners |-> owners]

\* The k-th store call of a handler, made on tables d with outcome r; f = k makes
\* it fail with a store error, which the handler rethrows.
Call(f, k, d, r) == IF f = k THEN Threw(d) ELSE r

\* The owners of the wallet contract after its first n events. A wallet deployed
\* outside the factory has owners before it is registered: the owners field of its
\* WalletRegistered entry records them (the event itself carries none).
RECURSIVE ChainOwners(_)
ChainOwners(n) ==
  IF n = 0 THEN {}
  ELSE LET e == events[n]
           p == ChainOwners(n - 1)
       IN CASE e.name = "WalletCreated" -> e.owners
            [] e.name = "WalletRegistered" -> e.owners
            [] e.name = "OwnerAdded" -> p \cup {e.who}
            [] e.name = "OwnerRemoved" -> p \ {e.who}
            [] OTHER -> p

\* quai.callContract(wallet, 'getOwners()'): quai_call at block tag 'latest', the
\* state of the contract after everything it has emitted so far.
callContract == ChainOwners(Len(events))

handleWalletCreated(d, e, f) ==
  LET r1 == Call(f, 1, d, upsertWallet(d, e.wallet, e.n, Cardinality(e.owners)))
  IN IF ~r1.ok THEN r1
     ELSE Call(f, 2, r1.db, addOwnersBatch(r1.db, e.wallet, e.owners, e.blockNumber))

\* The two contract calls come first; f = 1 is the failure of either of them or of
\* upsertWallet, which leave the tables alike.
handleWalletRegistered(d, e, f) ==
  LET ownerAddresses == callContract
      r1 == Call(f, 1, d, upsertWallet(d, e.wallet, 1, Cardinality(ownerAddresses)))
  IN IF ~r1.ok THEN r1
     ELSE Call(f, 2, r1.db, addOwnersBatch(r1.db, e.wallet, ownerAddresses, e.blockNumber))

handleOwnerAdded(d, e, f) ==
  LET r1 == Call(f, 1, d, addOwner(d, e.wallet, e.who, e.blockNumber))
  IN IF ~r1.ok THEN r1
     ELSE Call(f, 2, r1.db, updateWalletOwnerCount(r1.db, e.wallet, 1))

handleOwnerRemoved(d, e, f) ==
  LET r1 == Call(f, 1, d, removeOwner(d, e.wallet, e.who))
  IN IF ~r1.ok THEN r1
     ELSE Call(f, 2, r1.db, updateWalletOwnerCount(r1.db, e.wallet, 0 - 1))

handleTransactionProposed(d, e, f) ==
  Call(f, 1, d, upsertTransaction(d, e.wallet, e.hash, "pending", 0))

handleTransactionApproved(d, e, f) ==
  Call(f, 1, d, addConfirmation(d, e.wallet, e.hash, e.who, e.blockNumber))

handleApprovalRevoked(d, e, f) ==
  Call(f, 1, d, revokeConfirmation(d, e.wallet, e.hash, e.who))

handleTransactionExecuted(d, e, f) ==
  Call(f, 1, d, updateTransactionStatus(d, e.wallet, e.hash, "executed"))

handleTransactionCancelled(d, e, f) ==
  Call(f, 1, d, updateTransactionStatus(d, e.wallet, e.hash, "cancelled"))

handleRecoverySetup(d, e, f) ==
  upsertRecoveryConfig(d, e.wallet, e.owners, e.n, e.recoveryPeriod, e.blockNumber, f)

\* Math.floor(Date.now() / 1000) when the handler runs: after the last block.
DateNow == BlockTimestamp(MaxBlock) + 1

\* quai.getBlockTimestamp(blockNumber) as the handler sees it: the timestamp of
\* the block, or a thrown error once the retries are used up (f = 3).
getBlockTimestamp(blockNumber, f) ==
  IF f = 3 THEN Thrown ELSE Returned(BlockTimestamp(blockNumber))

\* handleRecoveryInitiated taking the execution time from the clock alone.
handleRecoveryInitiatedFromClock(d, e, f) ==
  LET config == getRecoveryConfig(d, e.wallet)
      recoveryPeriod == IF config = Null THEN 0 ELSE config.recovery_period
  IN IF f = 1 THEN Threw(d)
     ELSE Call(f, 2, d, upsertRecovery(d, e.wallet, e.hash, "pending", 0,
                                       DateNow + recoveryPeriod))

\* f = 1: getRecoveryConfig throws; f = 2: upsertRecovery throws; f = 3: the
\* timestamp read throws, which is caught and replaced by the clock.
handleRecoveryInitiated(d, e, f) ==
  LET config == getRecoveryConfig(d, e.wallet)
      recoveryPeriod == IF config = Null THEN 0 ELSE config.recovery_period
      read == getBlockTimestamp(e.blockNumber, f)
      executionTime == IF read.ok THEN read.value + recoveryPeriod
                       ELSE DateNow + recoveryPeriod
  IN IF f = 1 THEN Threw(d)
     ELSE Call(f, 2, d, upsertRecovery(d, e.wallet, e.hash, "pending", 0, executionTime))

handleRecoveryApproved(d, e, f) ==
  Call(f, 1, d, addRecoveryApproval(d, e.wallet, e.hash, e.who, e.blockNumber))

handleRecoveryApprovalRevoked(d, e, f) ==
  Call(f, 1, d, revokeRecoveryApproval(d, e.wallet, e.hash, e.who))

handleRecoveryExecuted(d, e, f) ==
  Call(f, 1, d, updateRecoveryStatus(d, e.wallet, e.hash, "executed"))

handleRecoveryCancelled(d, e, f) ==
  Call(f, 1, d, updateRecoveryStatus(d, e.wallet, e.hash, "cancelled"))

handleDailyLimitSet(d, e, f) ==
  Call(f, 1, d, upsertDailyLimit(d, e.wallet, e.n, 0))

handleDailyLimitReset(d, e, f) ==
  Call(f, 1, d, resetDailyLimit(d, e.wallet))

\* The value column is not followed: every execution carries value 1.
handleDailyLimitTransactionExecuted(d, e, f) ==
  LET r1 == Call(f, 1, d, addModuleTransaction(d, e.wallet, 1, e.n, e.blockNumber))
  IN IF ~r1.ok THEN r1
     ELSE Call(f, 2, r1.db, updateDailyLimitSpent(r1.db, e.wallet, e.n))

handleModuleEnabled(d, e, f) == Call(f, 1, d, addModule(d, e.wallet, e.who, e.blockNumber))

handleModuleDisabled(d, e, f) ==
  Call(f, 1, d, disableModule(d, e.wallet, e.who, e.blockNumber))

\* The switch of handleEvent.
handleEvent(d, e, f) ==
  CASE e.name = "WalletCreated" -> handleWalletCreated(d, e, f)
    [] e.name = "WalletRegistered" -> handleWalletRegistered(d, e, f)
    [] e.name = "OwnerAdded" -> handleOwnerAdded(d, e, f)
    [] e.name = "OwnerRemoved" -> handleOwnerRemoved(d, e, f)
    [] e.name = "TransactionProposed" -> handleTransactionProposed(d, e, f)
    [] e.name = "TransactionApproved" -> handleTransactionApproved(d, e, f)
    [] e.name = "ApprovalRevoked" -> handleApprovalRevoked(d, e, f)
    [] e.name = "TransactionExecuted" -> handleTransactionExecuted(d, e, f)
    [] e.name = "TransactionCancelled" -> handleTransactionCancelled(d, e, f)
    [] e.name = "RecoverySetup" -> handleRecoverySetup(d, e, f)
    [] e.name = "RecoveryInitiated" -> handleRecoveryInitiated(d, e, f)
    [] e.name = "RecoveryApproved" -> handleRecoveryApproved(d, e, f)
    [] e.name = "RecoveryApprovalRevoked" -> handleRecoveryApprovalRevoked(d, e, f)
    [] e.name = "RecoveryExecuted" -> handleRecoveryExecuted(d, e, f)
    [] e.name = "RecoveryCancelled" -> handleRecoveryCancelled(d, e, f)
    [] e.name = "DailyLimitSet" -> handleDailyLimitSet(d, e, f)
    [] e.name = "DailyLimitReset" -> handleDailyLimitReset(d, e, f)
    [] e.name = "DailyLimitTransactionExecuted" ->
         handleDailyLimitTransactionExecuted(d, e, f)
    [] e.name = "ModuleEnabled" -> handleModuleEnabled(d, e, f)
    [] e.name = "ModuleDisabled" -> handleModuleDisabled(d, e, f)
    [] OTHER -> Ok(d)

\* ------------------------------------------------ delivery of events
StoreFailures == 0 .. 2

Pending(name) == cursor < Len(events) /\ events[cursor + 1].name = name

\* handleEvent returns or throws: a thrown error fails the range, whose checkpoint
\* is not advanced, so the event stays due.
Deliver(r) ==
  /\ r.ok \/ retries < MaxRetries
  /\ db' = r.db
  /\ cursor' = IF r.ok THEN cursor + 1 ELSE cursor
  /\ retries' = IF r.ok THEN retries ELSE retries + 1
  /\ UNCHANGED <<events, indexerVars, serviceVars>>

\* One call of handleEvent on the event that is due.
HandleDue == \E f \in StoreFailures : Deliver(handleEvent(db, events[cursor + 1], f))

HandleWalletCreated ==
  /\ Pending("WalletCreated")
  /\ HandleDue
HandleWalletRegistered ==
  /\ Pending("WalletRegistered")
  /\ HandleDue
HandleOwnerAdded ==
  /\ Pending("OwnerAdded")
  /\ HandleDue
HandleOwnerRemoved ==
  /\ Pending("OwnerRemoved")
  /\ HandleDue
HandleTransactionProposed ==
  /\ Pending("TransactionProposed")
  /\ HandleDue
HandleTransactionApproved ==
  /\ Pending("TransactionApproved")
  /\ HandleDue
HandleApprovalRevoked ==
  /\ Pending("ApprovalRevoked")
  /\ HandleDue
HandleTransactionExecuted ==
  /\ Pending("TransactionExecuted")
  /\ HandleDue
HandleTransactionCancelled ==
  /\ Pending("TransactionCancelled")
  /\ HandleDue
\* upsertRecoveryConfig makes three store calls, each of which can fail.
HandleRecoverySetup ==
  /\ Pending("RecoverySetup")
  /\ \E f \in 0 .. 3 : Deliver(handleEvent(db, events[cursor + 1], f))
HandleRecoveryInitiated ==
  /\ Pending("RecoveryInitiated")
  /\ \E f \in 0 .. 3 : Deliver(handleEvent(db, events[cursor + 1], f))
HandleRecoveryApproved ==
  /\ Pending("RecoveryApproved")
  /\ HandleDue
HandleRecoveryApprovalRevoked ==
  /\ Pending("RecoveryApprovalRevoked")
  /\ HandleDue
HandleRecoveryExecuted ==
  /\ Pending("RecoveryExecuted")
  /\ HandleDue
HandleRecoveryCancelled ==
  /\ Pending("RecoveryCancelled")
  /\ HandleDue
HandleDailyLimitSet ==
  /\ Pending("DailyLimitSet")
  /\ HandleDue
HandleDailyLimitReset ==
  /\ Pending("DailyLimitReset")
  /\ HandleDue
HandleDailyLimitTransactionExecuted ==
  /\ Pending("DailyLimitTransactionExecuted")
  /\ HandleDue

HandleModuleEnabled ==
  /\ Pending("ModuleEnabled")
  /\ HandleDue
HandleModuleDisabled ==
  /\ Pending("ModuleDisabled")
  /\ HandleDue

\* A range that failed after some of its events were applied is fetched and
\* dispatched again from its first log; a run of the backfill script dispatches an
\* earlier range again.
Redeliver ==
  /\ cursor > 0
  /\ retries < MaxRetries
  /\ \E c \in 0 .. cursor - 1 : cursor' = c
  /\ retries' = retries + 1
  /\ UNCHANGED <<events, db, indexerVars, serviceVars>>

\* ------------------------------------------------ what the contracts emit
LastBlock == IF events = <<>> THEN 1 ELSE events[Len(events)].blockNumber
EventBlocks == {b \in {LastBlock, LastBlock + 1} : b <= MaxBlock}

EmitUpTo(max, e) ==
  /\ Len(events) < max
  /\ events' = Append(events, e)
  /\ UNCHANGED <<cursor, retries, db, indexerVars, serviceVars>>

Emit(e) == EmitUpTo(MaxEvents, e)

\* The factory creates the wallet once, or registers once a wallet deployed
\* elsewhere; the wallet adds an address that is no owner and removes an owner that
\* is not its last.
EmitOwnerEvent ==
  \E b \in EventBlocks : \E cur \in {ChainOwners(Len(events))} :
    \/ /\ cur = {}
       /\ \E S \in (SUBSET Owners) \ {{}} : \E name \in {"WalletCreated", "WalletRegistered"} :
            Emit(Ev(name, b, "", "", 1, S))
    \/ /\ cur # {}
       /\ \E o \in Owners \ cur : Emit(Ev("OwnerAdded", b, o, "", 0, {}))
    \/ /\ Cardinality(cur) > 1
       /\ \E o \in cur : Emit(Ev("OwnerRemoved", b, o, "", 0, {}))

\* What an event does to the proposal (transaction or recovery) it names.
Role(name) ==
  CASE name \in {"TransactionProposed", "RecoveryInitiated"} -> "open"
    [] name \in {"TransactionApproved", "RecoveryApproved"} -> "approve"
    [] name \in {"ApprovalRevoked", "RecoveryApprovalRevoked"} -> "revoke"
    [] name \in {"TransactionExecuted", "RecoveryExecuted"} -> "executed"
    [] name \in {"TransactionCancelled", "RecoveryCancelled"} -> "cancelled"
    [] OTHER -> "other"

\* The contract's view of proposal h after the first n events.
RECURSIVE OnChain(_, _)
OnChain(h, n) ==
  IF n = 0 THEN [status |-> "none", approvers |-> {}]
  ELSE LET e == events[n]
           p == OnChain(h, n - 1)
       IN IF e.hash # h THEN p
          ELSE CASE Role(e.name) = "open" -> [status |-> "pending", approvers |-> {}]
                 [] Role(e.name) = "approve" -> [p EXCEPT !.approvers = @ \cup {e.who}]
                 [] Role(e.name) = "revoke" -> [p EXCEPT !.approvers = @ \ {e.who}]
                 [] Role(e.name) \in {"executed", "cancelled"} ->
                      [p EXCEPT !.status = Role(e.name)]
                 [] OTHER -> p

\* A proposal is opened once, approved and revoked while pending, executed with
\* at least one approval, cancelled while pending.
EmitProposalEvent(hashes, voters, open, approve, revoke, executed, cancelled) ==
  \E b \in EventBlocks : \E h \in hashes : \E p \in {OnChain(h, Len(events))} :
    \/ p.status = "none" /\ Emit(Ev(open, b, "", h, 0, {}))
    \/ p.status = "pending"
         /\ \E o \in voters \ p.approvers : Emit(Ev(approve, b, o, h, 0, {}))
    \/ p.status = "pending"
         /\ \E o \in p.approvers : Emit(Ev(revoke, b, o, h, 0, {}))
    \/ p.status = "pending" /\ p.approvers # {} /\ Emit(Ev(executed, b, "", h, 0, {}))
    \/ p.status = "pending" /\ Emit(Ev(cancelled, b, "", h, 0, {}))

EmitTransactionEvent ==
  EmitProposalEvent(TxHashes, Owners, "TransactionProposed", "TransactionApproved",
                    "ApprovalRevoked", "TransactionExecuted", "TransactionCancelled")

EmitRecoveryEvent ==
  EmitProposalEvent(RecoveryHashes, Guardians, "RecoveryInitiated", "RecoveryApproved",
                    "RecoveryApprovalRevoked", "RecoveryExecuted", "RecoveryCancelled")

\* A decoded RecoverySetup event: its guardians in the owners field, its
\* threshold in n.
RecoverySetupEv(b, threshold, recoveryPeriod, guardians) ==
  [name |-> "RecoverySetup", wallet |-> StoreWallet, blockNumber |-> b, who |-> "",
   hash |-> "", n |-> threshold, owners |-> guardians, recoveryPeriod |-> recoveryPeriod]

\* The recovery module is set up, and set up again, with any guardians and any
\* recovery period, in the block of the previous event or the next.
EmitRecoverySetup ==
  \E b \in EventBlocks : \E S \in (SUBSET Guardians) \ {{}} :
    \E recoveryPeriod \in 0 .. MaxPeriod :
      Emit(RecoverySetupEv(b, 1, recoveryPeriod, S))

\* The daily-limit module, one event a block: any limit, any remaining limit.
EmitDailyLimitEvent ==
  \E b \in {Len(events) + 1} :
    \E e \in {Ev("DailyLimitSet", b, "", "", limit, {}) : limit \in 0 .. MaxLimit}
             \cup {Ev("DailyLimitReset", b, "", "", 0, {})}
             \cup {Ev("DailyLimitTransactionExecuted", b, "", "", remaining, {}) :
                     remaining \in 0 .. MaxLimit} :
      EmitUpTo(MaxLimitEvents, e)

\* The modules the wallet contract has enabled after its first n events.
RECURSIVE ChainModules(_)
ChainModules(n) ==
  IF n = 0 THEN {}
  ELSE LET e == events[n]
           p == ChainModules(n - 1)
       IN CASE e.name = "ModuleEnabled" -> p \cup {e.who}
            [] e.name = "ModuleDisabled" -> p \ {e.who}
            [] OTHER -> p

\* The wallet enables a module that is not enabled and disables one that is, in
\* the block of the previous event or the next.
EmitModuleEvent ==
  \E b \in EventBlocks : \E cur \in {ChainModules(Len(events))} :
    \/ \E m \in Modules \ cur : Emit(Ev("ModuleEnabled", b, m, "", 0, {}))
    \/ \E m \in cur : Emit(Ev("ModuleDisabled", b, m, "", 0, {}))

\* The recovery module is set up, and set up again with another recovery period
\* for the same guardians.
EmitRecoveryPeriod ==
  \E b \in EventBlocks : \E recoveryPeriod \in 0 .. MaxPeriod :
    EmitUpTo(MaxRecoveryEvents, RecoverySetupEv(b, 1, recoveryPeriod, Guardians))

\* A guardian initiates a recovery that does not exist yet.
EmitRecoveryInitiated ==
  \E b \in EventBlocks : \E h \in RecoveryHashes :
    /\ OnChain(h, Len(events)).status = "none"
    /\ EmitUpTo(MaxRecoveryEvents, Ev("RecoveryInitiated", b, "", h, 0, {}))

\* ------------------------------------------------ store specifications
\* The store once the creation of the wallet with both owners has been applied.
DbWithWallet ==
  [EmptyDb EXCEPT
     !.wallets = {[address |-> StoreWallet, threshold |-> 1,
                   owner_count |-> Cardinality(Owners)]},
     !.wallet_owners = {OwnerRow(StoreWallet, o, 0) : o \in Owners}]

InitWithWallet ==
  /\ InitIndexer
  /\ events = <<>>
  /\ cursor = 0
  /\ retries = 0
  /\ db = DbWithWallet

NextOwners ==
  \/ EmitOwnerEvent
  \/ HandleWalletCreated
  \/ HandleWalletRegistered
  \/ HandleOwnerAdded
  \/ HandleOwnerRemoved
  \/ Redeliver

SpecOwners == Init /\ [][NextOwners]_vars

NextTransactions ==
  \/ EmitTransactionEvent
  \/ HandleTransactionProposed
  \/ HandleTransactionApproved
  \/ HandleApprovalRevoked
  \/ HandleTransactionExecuted
  \/ HandleTransactionCancelled
  \/ Redeliver

SpecTransactions == InitWithWallet /\ [][NextTransactions]_vars

NextRecovery ==
  \/ EmitRecoveryEvent
  \/ HandleRecoveryInitiated
  \/ HandleRecoveryApproved
  \/ HandleRecoveryApprovalRevoked
  \/ HandleRecoveryExecuted
  \/ HandleRecoveryCancelled
  \/ Redeliver

SpecRecovery == InitWithWallet /\ [][NextRecovery]_vars

NextRecoverySetup ==
  \/ EmitRecoverySetup
  \/ HandleRecoverySetup
  \/ Redeliver

SpecRecoverySetup == InitWithWallet /\ [][NextRecoverySetup]_vars

NextDailyLimit ==
  \/ EmitDailyLimitEvent
  \/ HandleDailyLimitSet
  \/ HandleDailyLimitReset
  \/ HandleDailyLimitTransactionExecuted
  \/ Redeliver

SpecDailyLimit == InitWithWallet /\ [][NextDailyLimit]_vars

\* The recovery module from its setup on: configurations and initiations.
NextRecoveryInitiated ==
  \/ EmitRecoveryPeriod
  \/ EmitRecoveryInitiated
  \/ HandleRecoverySetup
  \/ HandleRecoveryInitiated
  \/ Redeliver

SpecRecoveryInitiated == InitWithWallet /\ [][NextRecoveryInitiated]_vars

NextModules ==
  \/ EmitModuleEvent
  \/ HandleModuleEnabled
  \/ HandleModuleDisabled
  \/ Redeliver

SpecModules == InitWithWallet /\ [][NextModules]_vars


\* ============================================================ properties
InRange(l, r) == r.from <= l.blockNumber /\ l.blockNumber <= r.to

\* C1: the persisted checkpoint never decreases, in the indexer and in the
\* standalone backfill entrypoint: every step leaves lastIndexedBlock at least as
\* large as it was.
C1_CheckpointNeverDecreases == [][lastIndexedBlock' >= lastIndexedBlock]_vars

\* A step of the poll loop (directly, or through a gap backfill) that indexes a
\* range: the only steps that start in the poll loop and change neither the chain
\* height nor isRunning, and do not leave the loop for a gap backfill.
PollRangeStep ==
  /\ tip' = tip
  /\ isRunning' = isRunning
  /\ \/ pc = "poll" /\ pc' = "poll"
     \/ pc = "backfill" /\ bf.caller = "poll"

\* C2: when a range [from, to] indexed by the poll loop fails (a getLogs call, a
\* handler or the checkpoint write), the checkpoint is left where it was, the loop
\* keeps running, the range it computes next starts at the same from, and the next
\* range it attempts does start there.
C2_FailedRangeRetried ==
  [][/\ (PollRangeStep /\ ~lastRange'.ok) =>
          /\ lastIndexedBlock' = lastIndexedBlock
          /\ pc' = "poll"
          /\ isRunning' = isRunning
          /\ lastIndexedBlock' + 1 = lastRange'.from
     /\ (PollRangeStep /\ ~lastRange.ok /\ lastRange.by = "poll") =>
          lastRange'.from = lastRange.from]_vars

\* C2 witness: a range of the poll loop has failed in a handler, the loop is running
\* and about to start again at the same block.
C2_Witness ==
  /\ lastRange.by = "poll"
  /\ ~lastRange.ok
  /\ Len(dispatched) > 0
  /\ pc = "poll"
  /\ isRunning
  /\ lastIndexedBlock + 1 = lastRange.from

\* C3: when the creation log of wallet w and a log emitted by w lie in the same
\* range, w's log is dispatched while that range is processed, before the
\* checkpoint is advanced: a committed range has dispatched them all.
C3_SameRangeWalletLogsDispatched ==
  lastRange.ok =>
    \A c \in chain, l \in chain :
      (/\ IsFactoryEvent(c)
       /\ l.address = c.wallet
       /\ InRange(c, lastRange)
       /\ InRange(l, lastRange))
      => \E i \in 1 .. Len(dispatched) : dispatched[i] = l

\* C4: of two events dispatched from the same range with the same blockNumber, one
\* from the factory and one from a tracked wallet, the factory event comes first.
C4_FactoryBeforeWallet ==
  \A i, j \in 1 .. Len(dispatched) :
    (/\ dispatched[i].address = Factory
     /\ dispatched[j].address \in Wallets
     /\ dispatched[i].blockNumber = dispatched[j].blockNumber)
    => i < j

\* C4 witness: a range dispatched a factory event and a wallet event of one block,
\* the wallet event having the lower log index.
C4_Witness ==
  \E i, j \in 1 .. Len(dispatched) :
    /\ dispatched[i].address = Factory
    /\ dispatched[j].address \in Wallets
    /\ dispatched[i].blockNumber = dispatched[j].blockNumber
    /\ dispatched[j].index < dispatched[i].index
    /\ lastRange.ok

\* Every emitted event has been handled without error in the latest pass over it.
Settled == cursor = Len(events)

ActiveOwners(d, w) == {o \in d.wallet_owners : o.wallet_address = w /\ o.is_active}

\* C5: under at-least-once delivery, once every event has been applied, each
\* wallet's owner_count equals the number of its active wallet_owners rows.
C5_OwnerCountIsActiveOwners ==
  Settled => \A r \in db.wallets :
               r.owner_count = Cardinality(ActiveOwners(db, r.address))

\* C6: under at-least-once delivery, once every event has been applied, each
\* transaction's confirmation_count equals the number of its active confirmations.
C6_ConfirmationCountIsActiveConfirmations ==
  Settled => \A t \in db.transactions :
               t.confirmation_count =
                 Cardinality(ActiveConfirmations(db, t.wallet_address, t.tx_hash))

\* C7: under at-least-once delivery, once every event has been applied, each
\* recovery's approval_count equals the number of its active approvals.
C7_ApprovalCountIsActiveApprovals ==
  Settled => \A r \in db.social_recoveries :
               r.approval_count =
                 Cardinality(ActiveApprovals(db, r.wallet_address, r.recovery_hash))

\* C8: after every step each daily_limit_state row has 0 <= spent_today <=
\* daily_limit, and a DailyLimitTransactionExecuted whose remainingLimit exceeds
\* the row's daily_limit leaves spent_today = 0.
C8_SpentWithinLimit ==
  [][/\ \A r \in db'.daily_limit_state :
          0 <= r.spent_today /\ r.spent_today <= r.daily_limit
     /\ (HandleDailyLimitTransactionExecuted /\ cursor' = cursor + 1) =>
          \A r \in db.daily_limit_state :
            events[cursor + 1].n > r.daily_limit =>
              \A r2 \in db'.daily_limit_state :
                r2.wallet_address = r.wallet_address => r2.spent_today = 0]_vars

\* C8 witness: in a first pass without failures the event applied last is an
\* execution whose remainingLimit exceeds the stored daily_limit, and spent_today is 0.
C8_Witness ==
  /\ retries = 0
  /\ cursor > 0
  /\ events[cursor].name = "DailyLimitTransactionExecuted"
  /\ Len(db.module_transactions) > 0
  /\ \E r \in db.daily_limit_state :
       events[cursor].n > r.daily_limit /\ r.daily_limit > 0 /\ r.spent_today = 0

\* C9: handling the event that is due a second time leaves the tables as the
\* first handling left them.
C9_HandledTwiceIsHandledOnce ==
  cursor < Len(events) =>
    \A once \in {handleEvent(db, events[cursor + 1], 0)} :
      once.ok => handleEvent(once.db, events[cursor + 1], 0).db = once.db

\* C10: no step changes the status of a transaction row that is executed or
\* cancelled.
C10_TerminalStatusKept ==
  [][\A t \in db.transactions :
       t.status \in {"executed", "cancelled"} =>
         \E u \in db'.transactions :
           /\ u.wallet_address = t.wallet_address
           /\ u.tx_hash = t.tx_hash
           /\ u.status = t.status]_vars

\* C11: after any applied sequence of WalletCreated, WalletRegistered, OwnerAdded and
\* OwnerRemoved events, every (wallet, owner) pair has at most one active
\* wallet_owners row.
C11_AtMostOneActiveOwnerRow ==
  \A r, s \in db.wallet_owners :
    (/\ r.is_active /\ s.is_active
     /\ r.wallet_address = s.wallet_address
     /\ r.owner_address = s.owner_address) => r = s

ActiveGuardians(d, w) ==
  {r.guardian_address : r \in {x \in d.social_recovery_guardians :
                                  x.wallet_address = w /\ x.is_active}}

\* C12: once handleEvent has applied a RecoverySetup event (a first setup, a
\* re-setup, also in the block of the previous one, or the same event again), the
\* active guardian rows of the wallet are the guardians the event carries.
C12_ActiveGuardiansAreTheEventsGuardians ==
  [][(cursor' = cursor + 1 /\ events[cursor'].name = "RecoverySetup")
       => ActiveGuardians(db', StoreWallet) = events[cursor'].owners]_vars

\* C13: every block range processed ends at or below tip - Confirmations, and so
\* does every value written to the checkpoint, in the indexer and in the standalone
\* backfill entrypoint (the chain height read for the run is at most tip).
C13_RangesEndAtConfirmedBlocks ==
  [][/\ lastRange' # lastRange => lastRange'.to <= tip' - Confirmations
     /\ lastIndexedBlock' # lastIndexedBlock
          => lastIndexedBlock' <= tip' - Confirmations]_vars

\* C14: after a stop request isRunning stays false and no block range is begun (the
\* only range that still ends is the one that was being indexed when stop was
\* requested), and the process does not end while a range is being indexed: that
\* range runs to completion and commits its checkpoint first.
C14_StopLetsTheRangeInProgressComplete ==
  [][/\ StopRequested => (pc' # "exited" => ~isRunning')
     /\ (StopRequested /\ lastRange' # lastRange) => pc = "indexing"
     /\ pc = "indexing" => pc' # "exited"]_vars

\* The requests sent in the window of WindowMs that ends with request i.
SentInWindow(i) ==
  {j \in 1 .. Len(quai.sent) :
     quai.sent[i] - WindowMs < quai.sent[j] /\ quai.sent[j] <= quai.sent[i]}

\* C15: in any window of WindowMs the RPC client sends at most RequestsPerWindow
\* requests, the retries of withRetry and the calls in flight together counted.
C15_AtMostNRequestsPerWindow ==
  \A i \in 1 .. Len(quai.sent) : Cardinality(SentInWindow(i)) <= RequestsPerWindow

\* C16: withRetry returns the value of the first call of fn that succeeds, the k-th
\* with k <= maxAttempts, having called fn exactly k times; when fn fails
\* maxAttempts times it throws the error of the last attempt after exactly
\* maxAttempts calls.
C16_RetryReturnsOrThrowsLastError ==
  LET k == Len(retry.outcomes)
      FailedBefore(n) == \A j \in 1 .. n : ~retry.outcomes[j].ok
  IN /\ retry.pc = "returned" =>
          /\ k <= retry.maxAttempts
          /\ retry.outcomes[k].ok
          /\ retry.result = retry.outcomes[k].value
          /\ FailedBefore(k - 1)
     /\ retry.pc = "threw" =>
          /\ k = retry.maxAttempts
          /\ FailedBefore(k)
          /\ retry.lastError = retry.outcomes[k].value
     /\ retry.pc \in {"calling", "sleeping"} =>
          /\ FailedBefore(k)
          /\ k < retry.maxAttempts

\* fn failed on every attempt, the first and the last with different errors, and
\* withRetry threw.
C16_Witness ==
  /\ retry.pc = "threw"
  /\ retry.maxAttempts = MaxAttempts
  /\ retry.outcomes[1].value # retry.outcomes[MaxAttempts].value

\* C17: getBlockTimestamp(n) for a cached n returns the cached value without a
\* request, and the hit makes n the most recently used entry, the last in the
\* order in which a later miss evicts.
C17_HitReturnsCachedAndMovesToMRU ==
  [][\A c \in Callers :
       (/\ stamp.calls[c].pc = "idle"
        /\ stamp'.calls[c].pc = "returned"
        /\ stamp'.calls[c].hit)
       => /\ stamp'.calls[c].value = BlockTimestamp(stamp'.calls[c].blockNumber)
          /\ stamp'.requests = stamp.requests
          /\ stamp'.timestampCache[Len(stamp'.timestampCache)].blockNumber
               = stamp'.calls[c].blockNumber]_vars

\* C18: a probe that reads a lag above MaxBlocksBehind while no backfill is in
\* progress reports the indexer check as failed and the status as unhealthy.
C18_LagWithoutBackfillIsUnhealthy ==
  [][(/\ probe' # probe
      /\ probe'.health.blocksBehind > MaxBlocksBehind
      /\ pc # "backfill")
     => /\ probe'.health.checks.indexer = "fail"
        /\ probe'.health.status = "unhealthy"]_vars

\* C19: /ready answers 200 iff the chain-RPC check, the store check and the
\* indexer check (the one that fails when the indexer is not running) all pass,
\* and 503 otherwise; /health answers 200 with status healthy under exactly that
\* condition and 503 with status unhealthy otherwise; /live answers 200 always.
C19_ReadyHealthLive ==
  probe.pc = "answered" =>
    LET h == probe.health
        allPass == /\ h.checks.quaiRpc = "pass"
                   /\ h.checks.supabase = "pass"
                   /\ h.checks.indexer = "pass"
    IN /\ h.checks.quaiRpc = "pass" <=> h.currentBlock >= 0
       /\ h.checks.supabase = "pass" <=> h.lastIndexedBlock >= 0
       /\ probe.url = "/ready" => probe.statusCode = IF allPass THEN 200 ELSE 503
       /\ probe.url = "/health" =>
            /\ probe.statusCode = IF allPass THEN 200 ELSE 503
            /\ h.status = IF allPass THEN "healthy" ELSE "unhealthy"
       /\ probe.url = "/live" => probe.statusCode = 200

\* /health answered 503 although the chain RPC and the store were reachable.
C19_Witness ==
  /\ probe.pc = "answered"
  /\ probe.url = "/health"
  /\ probe.statusCode = 503
  /\ probe.health.checks.quaiRpc = "pass"
  /\ probe.health.checks.supabase = "pass"

\* An input with the 0x prefix and two words of hex digits declares a length, the
\* value of its second word.
DeclaresLength(hexData) ==
  /\ Len(hexData) >= 2 + 2 * WordChars
  /\ slice(hexData, 0, 2) = <<"0", "x">>
  /\ \A i \in 3 .. 2 + 2 * WordChars : HexValue(hexData[i]) >= 0

DeclaredLength(hexData) ==
  ParseDigits(SubSeq(hexData, 3 + WordChars, 2 + 2 * WordChars), 1, 0)

\* C20: decode(encode(xs)) = xs for every list of at most ArrayLimit addresses, the
\* empty list included; an input that declares a length above ArrayLimit, or that
\* has fewer characters after 0x than two words and one word for each declared
\* address, makes the decoder throw.
C20_DecodeRoundTripsAndRejects ==
  /\ (decode.pc = "encoded" /\ Len(decode.xs) <= ArrayLimit)
       => decode.result = Returned(decode.xs)
  /\ (decode.pc # "idle" /\ DeclaresLength(decode.hexData))
       => \E n \in {DeclaredLength(decode.hexData)} :
            (n > ArrayLimit \/ Len(decode.hexData) - 2 < 2 * WordChars + n * WordChars)
            => ~decode.result.ok
  /\ (decode.pc # "idle" /\ slice(decode.hexData, 0, 2) = <<"0", "x">>
       /\ Len(decode.hexData) - 2 < 2 * WordChars)
       => ~decode.result.ok

\* A list of ArrayLimit addresses that differ was encoded and decoded.
C20_Witness ==
  /\ decode.pc = "encoded"
  /\ Len(decode.xs) = ArrayLimit
  /\ decode.xs[1] # decode.xs[ArrayLimit]
  /\ decode.result.ok

\* The priority indexBlockRange gives the logs of an address: 0 factory, 1 wallet,
\* 2 module.
PriorityOf(l) ==
  IF l.address = Factory THEN 0 ELSE IF l.address = ModuleAddr THEN 2 ELSE 1

\* C21: the events a range dispatches are in non-decreasing blockNumber order and,
\* within a block, in ascending (priority, logIndex) order, in the indexer and in
\* the standalone backfill entrypoint; the order is that of the sort key alone,
\* whatever order the getLogs calls returned their logs in.
C21_DispatchedInSortOrder ==
  \A i, j \in 1 .. Len(dispatched) :
    i < j => Before(Entry(dispatched[i], PriorityOf(dispatched[i])),
                    Entry(dispatched[j], PriorityOf(dispatched[j])))

\* C22: at startup, with startBlock = max(checkpoint + 1, StartBlock) and safeBlock
\* = tip - Confirmations, start calls backfill over [startBlock, safeBlock] when
\* startBlock <= safeBlock, the case startBlock = safeBlock included, and goes
\* straight to the poll loop otherwise.
C22_StartupBackfillIffStartAtMostSafe ==
  [][(pc = "init" /\ pc' # "init") =>
       LET startBlock == Max(lastIndexedBlock + 1, StartBlock)
           safeBlock == tip - Confirmations
       IN IF startBlock <= safeBlock
          THEN /\ pc' = "backfill"
               /\ bf'.from = startBlock /\ bf'.to = safeBlock /\ bf'.caller = "start"
          ELSE pc' = "poll" /\ bf' = NoBackfill]_vars

\* C23: an iteration of the poll loop that finds checkpoint < safeBlock replaces the
\* tracked-wallet set by the store's wallets and calls backfill over
\* [checkpoint + 1, safeBlock] when the gap exceeds BatchSize, and otherwise indexes
\* that one range directly; the backfill loop takes its range in consecutive
\* batches; no range given to indexBlockRange spans more than BatchSize blocks.
C23_PollGapBackfillAndBatches ==
  [][/\ (pc = "poll" /\ isRunning /\ (lastRange' # lastRange \/ pc' = "backfill")) =>
          LET safeBlock == tip - Confirmations
          IN /\ lastIndexedBlock < safeBlock
             /\ IF safeBlock - lastIndexedBlock > BatchSize
                THEN /\ trackedWallets' = storeWallets
                     /\ pc' = "backfill"
                     /\ bf'.from = lastIndexedBlock + 1
                     /\ bf'.start = lastIndexedBlock + 1
                     /\ bf'.to = safeBlock
                     /\ lastRange' = lastRange
                ELSE /\ pc' = "poll"
                     /\ lastRange'.from = lastIndexedBlock + 1
                     /\ lastRange'.to = safeBlock
     /\ (pc = "backfill" /\ bf' # bf) =>
          /\ lastRange'.from = bf.start
          /\ lastRange'.to = Min(bf.start + BatchSize - 1, bf.to)
          /\ pc' = "backfill" => (lastRange'.ok /\ bf'.start = lastRange'.to + 1
                                    /\ bf'.to = bf.to /\ bf'.start <= bf'.to)
          /\ (lastRange'.ok /\ lastRange'.to < bf.to) => pc' = "backfill"
     /\ lastRange' # lastRange =>
          (lastRange'.from <= lastRange'.to
             /\ lastRange'.to - lastRange'.from + 1 <= BatchSize)]_vars

\* C23 witness: the poll loop found a gap above BatchSize, reloaded the wallets and
\* its backfill has indexed a first full batch and is about to index the next.
C23_Witness ==
  /\ pc = "backfill"
  /\ bf.caller = "poll"
  /\ bf.start = bf.from + BatchSize
  /\ lastRange.ok
  /\ lastRange.from = bf.from
  /\ lastRange.to - lastRange.from + 1 = BatchSize
  /\ Len(dispatched) > 0

\* A backfill is running: Indexer.backfill is in its loop, or the standalone
\* backfill entrypoint is.
BackfillRunning == pc = "backfill" \/ script.pc = "run"

\* C24: isSyncing is true while a backfill runs and false again once it has
\* ended, by completing its last batch or by aborting on a failed batch: whenever
\* no backfill is running, the stored flag is false.
C24_SyncingOnlyWhileBackfillRuns ==
  /\ BackfillRunning => isSyncing
  /\ ~BackfillRunning => ~isSyncing

\* C25: the delay withRetry waits between failed attempt i and attempt i + 1 is
\* min(delayMs * BackoffMultiplier^(i - 1), maxDelayMs), and no delay is waited
\* after the final failed attempt.
C25_DelaysAreCappedPowers ==
  LET failed == {j \in 1 .. Len(retry.outcomes) : ~retry.outcomes[j].ok}
  IN /\ \A i \in 1 .. Len(retry.delays) :
          retry.delays[i] = Min(retry.delayMs * BackoffMultiplier ^ (i - 1), retry.maxDelayMs)
     /\ Len(retry.delays) = Cardinality(failed) - (IF retry.pc = "threw" THEN 1 ELSE 0)

\* The requests partition the set S: each address of S is in exactly one request,
\* and the requests hold nothing else and no address twice.
PartitionedBy(requests, S) ==
  /\ \A w \in S :
       Cardinality({k \in 1 .. Len(requests) : w \in AddressesOf(requests[k])}) = 1
  /\ \A k \in 1 .. Len(requests) :
       /\ AddressesOf(requests[k]) \subseteq S
       /\ Cardinality(AddressesOf(requests[k])) = Len(requests[k])

\* Every request carries at most GET_LOGS_ADDRESS_CHUNK_SIZE addresses.
WithinChunkSize(requests) ==
  \A k \in 1 .. Len(requests) : Len(requests[k]) <= GET_LOGS_ADDRESS_CHUNK_SIZE

\* C26: the wallet-log getLogs requests of a range scan carry at most
\* GET_LOGS_ADDRESS_CHUNK_SIZE addresses each and partition the tracked-wallet set:
\* those of a range the indexer scanned, sent for the set tracked when the scan
\* began, and those of a batch the standalone backfill completed, sent for the set
\* tracked once its factory logs were handled.
C26_WalletRequestsAreChunks ==
  [][/\ (lastRange' # lastRange /\ lastRange'.by # "script") =>
          /\ WithinChunkSize(WalletLogRequests(trackedWallets))
          /\ PartitionedBy(WalletLogRequests(trackedWallets), trackedWallets)
     /\ (lastRange' # lastRange /\ lastRange'.by = "script" /\ lastRange'.ok) =>
          /\ WithinChunkSize(ScriptWalletLogRequests(script'.tracked))
          /\ PartitionedBy(ScriptWalletLogRequests(script'.tracked), script'.tracked)]_vars

\* C27: getAllWalletAddresses returns every address of the wallets table exactly
\* once, in the table's order, for any number of wallets (none, less than a page,
\* whole pages, more than a page), and it stops with the first page shorter than
\* PAGE_SIZE it reads: every page read before the last was full, the last is not,
\* and no page is read after it.
C27_ListingReturnsEveryAddressOnce ==
  LET n == Len(listing.pages)
  IN /\ listing.pc = "returned" =>
          /\ listing.addresses = listing.rows
          /\ \A w \in 1 .. MaxRows :
               Cardinality({i \in 1 .. Len(listing.addresses) : listing.addresses[i] = w})
                 = Cardinality({i \in 1 .. Len(listing.rows) : listing.rows[i] = w})
          /\ n = (Len(listing.rows) \div PAGE_SIZE) + 1
          /\ listing.pages[n] < PAGE_SIZE
     /\ listing.pc \in {"reading", "returned", "threw"} =>
          \A k \in 1 .. n - 1 : listing.pages[k] = PAGE_SIZE
     /\ listing.pc \in {"reading", "threw"} =>
          (n > 0 => listing.pages[n] = PAGE_SIZE)

\* C27 witness: a table of exactly two pages was listed: two full pages, then the
\* empty one that ends the loop.
C27_Witness ==
  /\ listing.pc = "returned"
  /\ Len(listing.rows) = 2 * PAGE_SIZE
  /\ listing.pages = <<PAGE_SIZE, PAGE_SIZE, 0>>
  /\ Len(listing.addresses) = 2 * PAGE_SIZE

\* C28: a log whose topic0 is unknown or whose topics or data do not decode is
\* skipped and raises no error: no handler is given it; the logs of the range that
\* decode are dispatched in their order as without it; a range fails only in a
\* getLogs call, in the handler of a log that decodes or in the checkpoint write;
\* and a range that does not fail advances the checkpoint to its `to`.
C28_UndecodableLogsAreSkipped ==
  [][(lastRange' # lastRange /\ lastRange'.by # "script") =>
       \E entries \in {SortLogs(CollectLogs(trackedWallets, lastRange'.from, lastRange'.to))} :
       \E dry \in {indexBlockRange(lastRange'.from, lastRange'.to, 0)} :
         LET decodable == SelectSeq(entries, LAMBDA e : decodeEvent(e.log) # Null)
         IN /\ \A i \in 1 .. Len(dispatched') :
                 /\ decodeEvent(dispatched'[i]) # Null
                 /\ i <= Len(decodable)
                 /\ dispatched'[i] = decodable[i].log
            /\ lastRange'.ok =>
                 /\ Len(dispatched') = Len(decodable)
                 /\ lastIndexedBlock' = lastRange'.to
            /\ ~dry.ok =>
                 /\ Len(dry.dispatched) > 0
                 /\ ~HandlerCanSucceed(dry.dispatched[Len(dry.dispatched)], dry.wallets)]_vars

\* C28 witness: the latest range held a log that does not decode, sorted before a
\* log that was dispatched after it; the range succeeded and the checkpoint is its to.
C28_Witness ==
  /\ lastRange.ok
  /\ lastIndexedBlock = lastRange.to
  /\ \E u \in chain : \E i \in 1 .. Len(dispatched) :
       /\ decodeEvent(u) = Null
       /\ InRange(u, lastRange)
       /\ Before(Entry(u, PriorityOf(u)), Entry(dispatched[i], PriorityOf(dispatched[i])))

\* The insert of the guardian rows of event e would violate
\* UNIQUE(wallet_address, guardian_address, added_at_block) on tables d.
GuardianKeyTaken(d, e) ==
  \E r \in d.social_recovery_guardians :
    /\ r.wallet_address = e.wallet
    /\ r.guardian_address \in e.owners
    /\ r.added_at_block = e.blockNumber

\* C29: a store error returned to a gateway operation is raised to the caller,
\* unless it is the unique violation of an insert of an owner, a confirmation, an
\* approval, a whitelist entry or a deposit. For the event that is due, a
\* RecoverySetup: whichever of the three statements of upsertRecoveryConfig fails,
\* handleEvent throws, and so it does when the insert of the guardian rows is
\* rejected by their unique key.
C29_StoreErrorsAreRaised ==
  cursor < Len(events) =>
    \E e \in {events[cursor + 1]} :
      /\ \A f \in 1 .. 3 : ~handleEvent(db, e, f).ok
      /\ GuardianKeyTaken(db, e) => ~handleEvent(db, e, 0).ok

\* C30: no step deletes a wallets row, and handling a WalletCreated or
\* WalletRegistered event for a wallet that has a row leaves the row's threshold and
\* owner_count as they were: only the wallet's own OwnerAdded, OwnerRemoved and
\* ThresholdChanged events change them.
C30_FactoryEventsKeepThresholdAndOwnerCount ==
  [][\A r \in db.wallets :
       \E r2 \in db'.wallets :
         /\ r2.address = r.address
         /\ (cursor < Len(events)
               /\ events[cursor + 1].name \in {"WalletCreated", "WalletRegistered"}
               /\ events[cursor + 1].wallet = r.address)
            => (r2.threshold = r.threshold /\ r2.owner_count = r.owner_count)]_vars

\* C31: a (wallet, module) pair never has more than one wallet_modules row; a
\* step that applies ModuleEnabled or ModuleDisabled for the pair leaves its row
\* active exactly when the event is ModuleEnabled, a re-enable keeps the one row
\* it finds, and no other step touches the pair's rows.
C31_ModuleRowFollowsLastEvent ==
  [][\A m \in Modules :
       LET rows == ModuleRows(db, StoreWallet, m)
           rows2 == ModuleRows(db', StoreWallet, m)
           applied == /\ cursor' = cursor + 1
                      /\ events[cursor + 1].name \in {"ModuleEnabled", "ModuleDisabled"}
                      /\ events[cursor + 1].who = m
       IN /\ Cardinality(rows2) <= 1
          /\ rows # {} => Cardinality(rows2) = 1
          /\ applied =>
               ((\E r \in rows2 : r.is_active) <=> events[cursor + 1].name = "ModuleEnabled")
          /\ ~applied => rows2 = rows]_vars

\* A module disabled and enabled again: its one row is active once more.
C31_Witness ==
  /\ cursor >= 3
  /\ events[cursor].name = "ModuleEnabled"
  /\ \E i \in 1 .. cursor - 1 :
       events[i].name = "ModuleDisabled" /\ events[i].who = events[cursor].who
  /\ \E r \in ModuleRows(db, StoreWallet, events[cursor].who) :
       r.is_active /\ r.disabled_at_block > 0

\* C32: a step that applies RecoveryInitiated of block b, for a wallet whose
\* recovery config has period p, with no failed timestamp read, leaves the
\* recovery's row with execution_time = timestamp(b) + p, status pending and
\* approval_count 0, and inserts no approval row.
C32_ExecutionTimeIsBlockTimePlusPeriod ==
  [][\A f \in 0 .. 2 :
       LET e == events[cursor + 1]
           config == getRecoveryConfig(db, StoreWallet)
       IN (/\ cursor < Len(events)
           /\ e.name = "RecoveryInitiated"
           /\ config # Null
           /\ handleEvent(db, e, f).ok
           /\ db' = handleEvent(db, e, f).db
           /\ cursor' = cursor + 1)
          => /\ \E r \in db'.social_recoveries :
                  /\ r.wallet_address = e.wallet /\ r.recovery_hash = e.hash
                  /\ r.execution_time = BlockTimestamp(e.blockNumber) + config.recovery_period
                  /\ r.status = "pending"
                  /\ r.approval_count = 0
             /\ db'.social_recovery_approvals = db.social_recovery_approvals]_vars

\* A recovery initiated under a config with a period above zero.
C32_Witness ==
  /\ cursor > 1
  /\ events[cursor].name = "RecoveryInitiated"
  /\ \E c \in db.social_recovery_configs : c.recovery_period > 0
  /\ \E r \in db.social_recoveries :
       /\ r.recovery_hash = events[cursor].hash
       /\ r.execution_time > BlockTimestamp(events[cursor].blockNumber)
       /\ r.execution_time # DateNow

\* C33: a call whose latest response carries an error object does not return a
\* value, whichever of the four calls it is; when the retries are used up on
\* such responses the chain-RPC check of the health probe fails.
C33_ErrorResponseFailsTheCall ==
  LET n == Len(rpc.responses)
  IN (n > 0 /\ rpc.responses[n].kind = "error") =>
       /\ rpc.pc # "returned"
       /\ rpc.quaiRpcCheck # "pass"

\* C34: whatever height T the chain reaches, the checkpoint reaches
\* T - Confirmations in the end.
C34_CheckpointReachesEverySafeBlock ==
  \A T \in 0 .. MaxTip : (tip = T) ~> (lastIndexedBlock >= T - Confirmations)

\* C35: a step that applies TransactionApproved or ApprovalRevoked of (txHash,
\* owner) leaves an active confirmations row for the triple exactly when the
\* event is TransactionApproved, and no other step changes whether there is one.
C35_ConfirmationFollowsLastEvent ==
  [][\A h \in TxHashes, o \in Owners :
       LET active == \E c \in db.confirmations :
                       c.wallet_address = StoreWallet /\ c.tx_hash = h
                         /\ c.owner_address = o /\ c.is_active
           active2 == \E c \in db'.confirmations :
                        c.wallet_address = StoreWallet /\ c.tx_hash = h
                          /\ c.owner_address = o /\ c.is_active
           applied == /\ cursor' = cursor + 1
                      /\ events[cursor + 1].name \in {"TransactionApproved", "ApprovalRevoked"}
                      /\ events[cursor + 1].hash = h
                      /\ events[cursor + 1].who = o
       IN /\ applied => (active2 <=> events[cursor + 1].name = "TransactionApproved")
          /\ ~applied => (active2 <=> active)]_vars

\* C36: every range handed to indexBlockRange, by the startup backfill or by the
\* poll loop, begins at or above max(checkpoint + 1, configured start block).
C36_RangesBeginAtOrAboveStartBlock ==
  [][lastRange' # lastRange =>
       lastRange'.from >= Max(lastIndexedBlock + 1, ConfiguredStartBlock)]_vars

\* C37: once stop() has been called during the startup backfill, isRunning
\* stays false and the poll loop indexes no range.
C37_StopDuringStartupIsKept ==
  [][signal = "stopping" =>
       /\ ~isRunning'
       /\ pc = "poll" => lastRange' = lastRange]_vars

\* C38: at every poll-iteration boundary each tracked address has a Wallet row
\* in the store, and after a committed range each Wallet row is tracked.
C38_TrackedWalletsCacheTheStore ==
  pc = "poll" =>
    /\ trackedWallets \subseteq storeWallets
    /\ lastRange.ok => storeWallets \subseteq trackedWallets

\* C39: the timestamp cache never holds more than TimestampCacheSize entries; a
\* change of a full cache removes its first entry and nothing else, a change of
\* a cache with room removes nothing, and a read that fails leaves the cache
\* as it was.
C39_CacheStaysWithinCapacity ==
  /\ [](Len(stamp.timestampCache) <= TimestampCacheSize)
  /\ [][LET cache == stamp.timestampCache
            after == stamp'.timestampCache
        IN /\ after # cache =>
                IF Len(cache) >= TimestampCacheSize
                  THEN \/ after = Tail(cache)
                       \/ /\ Len(after) = Len(cache)
                          /\ SubSeq(after, 1, Len(cache) - 1) = Tail(cache)
                  ELSE /\ Len(after) = Len(cache) + 1
                       /\ SubSeq(after, 1, Len(cache)) = cache
           /\ (\E c \in Callers : /\ stamp.calls[c].pc = "fetching"
                                  /\ stamp'.calls[c].pc = "threw")
                => after = cache]_vars

\* A block that one caller fetched has been evicted by later misses of a full
\* cache, and the other caller's read has failed.
C39_Witness ==
  /\ Len(stamp.timestampCache) = TimestampCacheSize
  /\ \E c \in Callers :
       /\ stamp.calls[c].pc = "returned"
       /\ ~stamp.calls[c].hit
       /\ CacheIndex(stamp.timestampCache, stamp.calls[c].blockNumber) = {}
  /\ \E c \in Callers : stamp.calls[c].pc = "threw"

====
